---- MODULE Spec2Model ----
(***************************************************************************)
(* Smart Session Planner: the suggestion engine (api/app/model/suggestion),*)
(* the session create/update routes (api/app/api/sessions), the progress   *)
(* statistics (api/app/model/progress), and the sessions store and the     *)
(* useSuggestions hook of the mobile application (mobile/src/controller).  *)
(*                                                                         *)
(* Time is an integer number of minutes since the local midnight of a      *)
(* Sunday; the local time zone has no daylight-saving transitions.         *)
(* An "HH:mm" string is the pair <<HH, mm>>; string comparison of two      *)
(* zero-padded "HH:mm" strings is the lexicographic order of the pairs.    *)
(* Factor scores are carried as integers in twelfths of a point and the    *)
(* weighted total in 240ths of a point, so the arithmetic is exact.        *)
(***************************************************************************)
EXTENDS Integers, Sequences, FiniteSets, TLC

VARIABLES
    \* ---- arguments and result of generateSuggestions ----
    sessionType,          \* [id, priority]
    existingSessions,     \* sequence of sessions
    availabilityWindows,  \* sequence of windows
    durationMinutes,
    lookAheadDays,
    now,                  \* the clock read by new Date()
    suggestions,          \* value returned by the latest call
    calls,                \* number of calls made so far
    calledAt,             \* clock value read by the latest call
    previous,             \* value returned by the call before the latest
    previousAt,           \* clock value read by the call before the latest
    \* ---- the sessions API ----
    sessionTable,         \* rows of the Session table
    nextId,               \* the id the next created row gets
    req,                  \* per client: the request in flight or last answered
    oneAtATime,           \* the scenario: requests are sent one after another
    \* ---- one execution of generateSuggestions, statement by statement ----
    gen,                  \* the locals of the running call and its position
    \* ---- calculateProgressStats ----
    allSessions,          \* the session list passed to calculateProgressStats
    stats,                \* the value it returned
    \* ---- the mobile application ----
    store,                \* the SessionsStore singleton and its callers
    server,               \* the backend as seen by the mobile application
    hook,                 \* the state of one useSuggestions hook
    \* ---- scoreTimeSlot ----
    scored,               \* the arguments of one call and the value returned
    \* ---- a screen of the mobile application marking conflicts ----
    screen                \* the sessions shown and the conflicts found

suggVars == << sessionType, existingSessions, availabilityWindows,
               durationMinutes, lookAheadDays, now, suggestions, calls,
               calledAt, previous, previousAt >>

apiVars == << sessionTable, nextId, req, oneAtATime >>

progVars == << allSessions, stats >>

mobileVars == << store, server, hook >>

scoreVars == << scored >>

screenVars == << screen >>

vars == << suggVars, apiVars, gen, progVars, mobileVars, scoreVars,
           screenVars >>

-----------------------------------------------------------------------------
(* Dates *)

Hours(h) == h * 60
DayMinutes == Hours(24)

Min(a, b) == IF a <= b THEN a ELSE b
Max(a, b) == IF a >= b THEN a ELSE b

\* Date.prototype.getDay(): 0 = Sunday
getDay(t) == (t \div DayMinutes) % 7

\* date.setHours(h, m, 0, 0) on a copy of t
setHours(t, h, m) == (t \div DayMinutes) * DayMinutes + Hours(h) + m

\* Date.prototype.getHours()
getHours(t) == (t % DayMinutes) \div 60

\* date-fns format(t, "HH:mm")
format(t) == << (t % DayMinutes) \div 60, t % 60 >>

\* "HH:mm".split(":").map(Number)
splitHM(str) == [hour |-> str[1], minute |-> str[2]]

\* JavaScript comparison of two "HH:mm" strings
StrLeq(a, b) == a[1] < b[1] \/ (a[1] = b[1] /\ a[2] <= b[2])
StrLt(a, b) == a[1] < b[1] \/ (a[1] = b[1] /\ a[2] < b[2])

\* date-fns addHours(t, amount): adds amount * 3600000 ms; the amount is
\* given here in minutes (durationMinutes / 60 hours = durationMinutes min)
addHours(t, amountInMinutes) == t + amountInMinutes

\* date-fns differenceInHours(left, right): whole hours, truncated toward 0
differenceInHours(left, right) ==
    IF left >= right THEN (left - right) \div 60
                     ELSE 0 - ((right - left) \div 60)

\* JavaScript Infinity: larger than every distance in hours that occurs
Infinity == 1000 * 1000

-----------------------------------------------------------------------------
(* Configuration constants *)

MIN_SPACING_HOURS == 2
IDEAL_SPACING_HOURS == 24
MAX_SESSIONS_PER_DAY == 4
HIGH_PRIORITY_THRESHOLD == 4

\* a factor score of x points, in twelfths of a point
Pts(x) == 12 * x

SetMin(S) == CHOOSE m \in S : \A x \in S : m <= x

-----------------------------------------------------------------------------
(* Scoring factors *)

\* the spacing of one existing session to the proposed slot (map callback)
spacingOf(proposedStart, proposedEnd, session) ==
    LET distanceBefore == differenceInHours(proposedStart, session.endTime)
        distanceAfter  == differenceInHours(session.startTime, proposedEnd)
    IN  Min(IF distanceBefore > 0 THEN distanceBefore ELSE Infinity,
            IF distanceAfter > 0 THEN distanceAfter ELSE Infinity)

calculateSpacingScore(proposedStart, proposedEnd, sessions) ==
    IF Len(sessions) = 0 THEN Pts(100)
    ELSE LET spacings == { spacingOf(proposedStart, proposedEnd, sessions[i]) :
                              i \in DOMAIN sessions }
             minSpacing == SetMin(spacings)
         IN  IF minSpacing < MIN_SPACING_HOURS THEN 0
             ELSE \* min(100, minSpacing / 24 * 100), times 12
                  Min(Pts(100), (minSpacing * Pts(100)) \div IDEAL_SPACING_HOURS)

\* calculatePriorityScore favouring the low priorities
calculatePriorityScoreInverted(priority) == ((6 - priority) * Pts(100)) \div 5

calculatePriorityScore(priority) == (priority * Pts(100)) \div 5

calculateDayLoadScore(proposedDate, sessions) ==
    LET dayStart == setHours(proposedDate, 0, 0)
        \* dayEnd is 23:59:59.999 of the same day
        sessionsOnDay == { i \in DOMAIN sessions :
                              /\ sessions[i].startTime >= dayStart
                              /\ sessions[i].startTime < dayStart + DayMinutes }
    IN  IF Cardinality(sessionsOnDay) >= MAX_SESSIONS_PER_DAY THEN Pts(20)
        ELSE Pts(100 - Cardinality(sessionsOnDay) * 15)

\* calculateAvailabilityScore where a slot must end before the window does
calculateAvailabilityScoreOpen(proposedStart, proposedEnd, windows) ==
    LET dayOfWeek == getDay(proposedStart)
        startTimeStr == format(proposedStart)
        endTimeStr == format(proposedEnd)
        matchingWindows == { i \in DOMAIN windows :
                                windows[i].dayOfWeek = dayOfWeek }
        fitsInWindow == \E i \in matchingWindows :
                            /\ StrLeq(windows[i].startTime, startTimeStr)
                            /\ StrLt(endTimeStr, windows[i].endTime)
        partialFit == \E i \in matchingWindows :
                          \/ /\ StrLeq(windows[i].startTime, startTimeStr)
                             /\ StrLt(startTimeStr, windows[i].endTime)
                          \/ /\ StrLt(windows[i].startTime, endTimeStr)
                             /\ StrLeq(endTimeStr, windows[i].endTime)
    IN  IF matchingWindows = {} THEN Pts(50)
        ELSE IF fitsInWindow THEN Pts(100)
        ELSE IF partialFit THEN Pts(50)
        ELSE 0

calculateAvailabilityScore(proposedStart, proposedEnd, windows) ==
    LET dayOfWeek == getDay(proposedStart)
        startTimeStr == format(proposedStart)
        endTimeStr == format(proposedEnd)
        matchingWindows == { i \in DOMAIN windows :
                                windows[i].dayOfWeek = dayOfWeek }
        fitsInWindow == \E i \in matchingWindows :
                            /\ StrLeq(windows[i].startTime, startTimeStr)
                            /\ StrLeq(endTimeStr, windows[i].endTime)
        partialFit == \E i \in matchingWindows :
                          \/ /\ StrLeq(windows[i].startTime, startTimeStr)
                             /\ StrLt(startTimeStr, windows[i].endTime)
                          \/ /\ StrLt(windows[i].startTime, endTimeStr)
                             /\ StrLeq(endTimeStr, windows[i].endTime)
    IN  IF matchingWindows = {} THEN Pts(50)
        ELSE IF fitsInWindow THEN Pts(100)
        ELSE IF partialFit THEN Pts(50)
        ELSE 0

\* calculateFatigueScore with a window that excludes its two bounds
calculateFatigueScoreExclusive(proposedStart, sessionTypePriority, sessions) ==
    IF sessionTypePriority < HIGH_PRIORITY_THRESHOLD THEN Pts(100)
    ELSE LET windowStart == addHours(proposedStart, 0 - Hours(48))
             windowEnd == addHours(proposedStart, Hours(48))
             nearbyHighPrioritySessions ==
                 { i \in DOMAIN sessions :
                      /\ sessions[i].startTime > windowStart
                      /\ sessions[i].startTime < windowEnd
                      /\ sessions[i].priority >= HIGH_PRIORITY_THRESHOLD }
         IN  IF Cardinality(nearbyHighPrioritySessions) >= 3 THEN Pts(30)
             ELSE IF Cardinality(nearbyHighPrioritySessions) >= 2 THEN Pts(60)
             ELSE Pts(100)

calculateFatigueScore(proposedStart, sessionTypePriority, sessions) ==
    IF sessionTypePriority < HIGH_PRIORITY_THRESHOLD THEN Pts(100)
    ELSE LET windowStart == addHours(proposedStart, 0 - Hours(48))
             windowEnd == addHours(proposedStart, Hours(48))
             nearbyHighPrioritySessions ==
                 { i \in DOMAIN sessions :
                      /\ sessions[i].startTime >= windowStart
                      /\ sessions[i].startTime <= windowEnd
                      /\ sessions[i].priority >= HIGH_PRIORITY_THRESHOLD }
         IN  IF Cardinality(nearbyHighPrioritySessions) >= 3 THEN Pts(30)
             ELSE IF Cardinality(nearbyHighPrioritySessions) >= 2 THEN Pts(60)
             ELSE Pts(100)

\* weighted total, in 240ths of a point:
\* 0.3 s + 0.15 p + 0.2 d + 0.25 a + 0.1 f = (6 s + 3 p + 4 d + 5 a + 2 f) / 20
scoreTimeSlot(startTime, endTime, type, sessions, windows) ==
    LET spacingScore == calculateSpacingScore(startTime, endTime, sessions)
        priorityScore == calculatePriorityScore(type.priority)
        dayLoadScore == calculateDayLoadScore(startTime, sessions)
        availabilityScore == calculateAvailabilityScore(startTime, endTime, windows)
        fatigueScore == calculateFatigueScore(startTime, type.priority, sessions)
    IN  6 * spacingScore + 3 * priorityScore + 4 * dayLoadScore
          + 5 * availabilityScore + 2 * fatigueScore

\* the threshold "score >= 30" on a total in 240ths
ScoreAtLeast30(score240) == score240 >= 240 * 30

\* Math.round of a total in 240ths: floor(x + 0.5)
MathRound(score240) == (score240 + 120) \div 240

-----------------------------------------------------------------------------
(* Slot generation *)

\* slotLoop with the loop condition testing the start of the slot instead
\* of its end
RECURSIVE slotLoopStartOnly(_, _, _)
slotLoopStartOnly(currentTime, windowEnd, duration) ==
    IF currentTime <= windowEnd
    THEN << currentTime >>
           \o slotLoopStartOnly(addHours(currentTime, 30), windowEnd, duration)
    ELSE << >>

\* slotLoop that advances by a whole hour
RECURSIVE slotLoopHourly(_, _, _)
slotLoopHourly(currentTime, windowEnd, duration) ==
    IF addHours(currentTime, duration) <= windowEnd
    THEN << currentTime >>
           \o slotLoopHourly(addHours(currentTime, 60), windowEnd, duration)
    ELSE << >>

\* the 30-minute walk "while (addHours(currentTime, duration / 60) <= end)"
RECURSIVE slotLoop(_, _, _)
slotLoop(currentTime, windowEnd, duration) ==
    IF addHours(currentTime, duration) <= windowEnd
    THEN << currentTime >> \o slotLoop(addHours(currentTime, 30), windowEnd, duration)
    ELSE << >>

\* the forEach callback: the slots of one availability window on a date
windowSlots(date, duration, window) ==
    LET s == splitHM(window.startTime)
        e == splitHM(window.endTime)
        windowStart == setHours(date, s.hour, s.minute)
        windowEnd == setHours(date, e.hour, e.minute)
    IN  slotLoop(windowStart, windowEnd, duration)

\* forEachWindow that skips a start time an earlier window already produced
RECURSIVE forEachWindowMerged(_, _, _)
forEachWindowMerged(date, duration, windows) ==
    IF windows = << >> THEN << >>
    ELSE LET earlier == forEachWindowMerged(date, duration,
                            SubSeq(windows, 1, Len(windows) - 1))
         IN  earlier \o SelectSeq(windowSlots(date, duration, windows[Len(windows)]),
                                  LAMBDA st : \A i \in DOMAIN earlier : earlier[i] # st)

\* windows.forEach: the slots of the windows, window after window
RECURSIVE forEachWindow(_, _, _)
forEachWindow(date, duration, windows) ==
    IF windows = << >> THEN << >>
    ELSE windowSlots(date, duration, Head(windows))
           \o forEachWindow(date, duration, Tail(windows))

\* generateTimeSlots without the default 06:00-22:00 hours
generateTimeSlotsNoFallback(date, duration, allWindows) ==
    LET dayOfWeek == getDay(date)
        windows == SelectSeq(allWindows, LAMBDA w : w.dayOfWeek = dayOfWeek)
    IN  forEachWindow(date, duration, windows)

generateTimeSlots(date, duration, allWindows) ==
    LET dayOfWeek == getDay(date)
        windows == SelectSeq(allWindows, LAMBDA w : w.dayOfWeek = dayOfWeek)
    IN  IF Len(windows) = 0
        THEN slotLoop(setHours(date, 6, 0), setHours(date, 22, 0), duration)
        ELSE forEachWindow(date, duration, windows)

-----------------------------------------------------------------------------
(* generateSuggestions *)

\* conflictsWith without the third disjunct (the candidate covers the session)
conflictsWithEndpointsOnly(startTime, endTime, session) ==
    \/ (startTime >= session.startTime /\ startTime < session.endTime)
    \/ (endTime > session.startTime /\ endTime <= session.endTime)

\* the conflict test of one existing session against a candidate
conflictsWith(startTime, endTime, session) ==
    \/ (startTime >= session.startTime /\ startTime < session.endTime)
    \/ (endTime > session.startTime /\ endTime <= session.endTime)
    \/ (startTime <= session.startTime /\ endTime >= session.endTime)

conflicts(startTime, endTime, sessions) ==
    \E i \in DOMAIN sessions : conflictsWith(startTime, endTime, sessions[i])

\* isSuggested that also drops a candidate whose spacing factor is 0
isSuggestedSpacedOnly(startTime, type, sessions, windows, duration) ==
    LET endTime == addHours(startTime, duration)
    IN  /\ ~conflicts(startTime, endTime, sessions)
        /\ ScoreAtLeast30(scoreTimeSlot(startTime, endTime, type, sessions, windows))
        /\ calculateSpacingScore(startTime, endTime, sessions) > 0

\* the candidate is pushed to the suggestions
isSuggested(startTime, type, sessions, windows, duration) ==
    LET endTime == addHours(startTime, duration)
    IN  /\ ~conflicts(startTime, endTime, sessions)
        /\ ScoreAtLeast30(scoreTimeSlot(startTime, endTime, type, sessions, windows))

\* session.sessionType.name: the name of the type the session refers to
sessionTypeName(session) ==
    IF session.sessionTypeId = "type-1" THEN "Deep Work"
    ELSE IF session.sessionTypeId = "type-2" THEN "Meeting"
    ELSE "Workout"

\* a number of tenths as a template literal prints it: 20 is "2", 18 "1.8"
tenthsToString(tenths) ==
    IF tenths % 10 = 0 THEN ToString(tenths \div 10)
    ELSE ToString(tenths \div 10) \o "." \o ToString(tenths % 10)

\* Math.round((minSpacing / 24) * 10) / 10, in tenths
roundDays(minSpacing) == (minSpacing * 20 + 24) \div 48

\* Array.prototype.join
RECURSIVE join(_, _)
join(strings, separator) ==
    IF Len(strings) = 0 THEN ""
    ELSE IF Len(strings) = 1 THEN strings[1]
    ELSE strings[1] \o separator \o join(Tail(strings), separator)

\* the parameter score is not read
generateReason(startTime, priority, sessions, sessionTypeId) ==
    LET sameTypeSessions ==
            SelectSeq(sessions, LAMBDA x : x.sessionTypeId = sessionTypeId)
        spacings ==
            { h \in { differenceInHours(startTime, sameTypeSessions[i].endTime) :
                         i \in DOMAIN sameTypeSessions } : h > 0 }
        minSpacing == SetMin(spacings)
        name == sessionTypeName(sameTypeSessions[1])
        spacing ==
            IF Len(sameTypeSessions) > 0
            THEN IF spacings # {}
                 THEN IF minSpacing >= 24
                      THEN << "Good spacing ("
                                \o tenthsToString(roundDays(minSpacing))
                                \o " days since last " \o name \o ")" >>
                      ELSE << "Good spacing (" \o ToString(minSpacing)
                                \o " hours since last " \o name \o ")" >>
                 ELSE << >>
            ELSE << "First session of this type" >>
        hour == getHours(startTime)
        focus ==
            IF hour >= 6 /\ hour < 12
            THEN << "Uses your morning focus window" >>
            ELSE IF hour >= 18 /\ hour < 22
            THEN << "Uses your evening focus window" >>
            ELSE << >>
        high ==
            IF priority >= HIGH_PRIORITY_THRESHOLD
            THEN << "High priority session" >>
            ELSE << >>
        reasons == spacing \o focus \o high
    IN  IF Len(reasons) > 0 THEN join(reasons, ". ")
        ELSE "Good time slot available"

makeSuggestion(startTime, type, sessions, windows, duration) ==
    LET endTime == addHours(startTime, duration)
    IN  [sessionTypeId |-> type.id,
         startTime |-> startTime,
         endTime |-> endTime,
         reason |-> generateReason(startTime, type.priority, sessions, type.id),
         score |-> MathRound(scoreTimeSlot(startTime, endTime, type, sessions, windows))]

\* the body of the dayOffset loop: the suggestions pushed for one day
daySuggestions(date, type, sessions, windows, duration) ==
    LET timeSlots == generateTimeSlots(date, duration, windows)
        kept == SelectSeq(timeSlots,
                    LAMBDA st : isSuggested(st, type, sessions, windows, duration))
    IN  [k \in 1..Len(kept) |->
            makeSuggestion(kept[k], type, sessions, windows, duration)]

\* the loop condition with <= in place of <
dayLoopContinuesInclusive(dayOffset, lookAhead) == dayOffset <= lookAhead

\* the condition of "for (let dayOffset = 0; dayOffset < lookAheadDays; ...)"
dayLoopContinues(dayOffset, lookAhead) == dayOffset < lookAhead

RECURSIVE dayLoop(_, _, _, _, _, _, _)
dayLoop(dayOffset, today, type, sessions, windows, duration, lookAhead) ==
    IF dayLoopContinues(dayOffset, lookAhead)
    THEN daySuggestions(addHours(today, dayOffset * Hours(24)),
                        type, sessions, windows, duration)
           \o dayLoop(dayOffset + 1, today, type, sessions, windows, duration, lookAhead)
    ELSE << >>

SetMax(S) == CHOOSE m \in S : \A x \in S : m >= x

\* sortByKeys that puts the entries of equal key latest first
RECURSIVE sortByKeysLatestFirst(_, _, _)
sortByKeysLatestFirst(list, key, lastKey) ==
    IF key > lastKey THEN << >>
    ELSE LET same == SelectSeq(list, LAMBDA s : 0 - s.score = key)
         IN  [i \in 1..Len(same) |-> same[Len(same) + 1 - i]]
               \o sortByKeysLatestFirst(list, key + 1, lastKey)

\* the elements of list whose key -score lies in key..lastKey, by ascending
\* key, elements of equal key in the order of the list
RECURSIVE sortByKeys(_, _, _)
sortByKeys(list, key, lastKey) ==
    IF key > lastKey THEN << >>
    ELSE SelectSeq(list, LAMBDA s : 0 - s.score = key)
           \o sortByKeys(list, key + 1, lastKey)

\* R.sortBy(s => -s.score): a stable sort by the key -score
sortByScore(list) ==
    IF list = << >> THEN << >>
    ELSE LET keys == { 0 - list[i].score : i \in DOMAIN list }
         IN  sortByKeys(list, SetMin(keys), SetMax(keys))

\* take that keeps one element too many
takeOneMore(n, list) == SubSeq(list, 1, Min(n + 1, Len(list)))

\* R.take(n)
take(n, list) == SubSeq(list, 1, Min(n, Len(list)))

\* generateSuggestions that drops the slots starting before the clock reading
generateSuggestionsFutureOnly(clock, type, sessions, windows, duration, lookAhead) ==
    LET today == setHours(clock, 0, 0)
    IN  take(10, sortByScore(SelectSeq(
                 dayLoop(0, today, type, sessions, windows, duration, lookAhead),
                 LAMBDA s : s.startTime >= clock)))

generateSuggestions(clock, type, sessions, windows, duration, lookAhead) ==
    LET today == setHours(clock, 0, 0)
    IN  take(10, sortByScore(dayLoop(0, today, type, sessions, windows,
                                     duration, lookAhead)))

-----------------------------------------------------------------------------
(* Inputs of the suggestion engine *)

MaxSessions == 2     \* existing sessions drawn freely from the pool
MaxWindows == 2      \* availability windows
MaxLookAhead == 2    \* lookAheadDays
MaxCalls == 2        \* calls of generateSuggestions in one behaviour

At(day, h, m) == day * DayMinutes + Hours(h) + m

\* day 0 is a Sunday, so day 1 is a Monday
Clock == { At(1, 0, 0), At(1, 8, 20), At(2, 0, 5) }

Durations == { 45, 60, 90, 960, 990 }

Priorities == { 1, 5 }

WindowPool ==
    { [dayOfWeek |-> 1, startTime |-> << 9, 0 >>, endTime |-> << 11, 0 >>],
      [dayOfWeek |-> 1, startTime |-> << 10, 0 >>, endTime |-> << 12, 30 >>] }

Session(id, typeId, priority, startTime, endTime) ==
    [id |-> id, sessionTypeId |-> typeId, priority |-> priority,
     startTime |-> startTime, endTime |-> endTime, completed |-> FALSE]

\* p is the priority of "type-1", the type suggestions are asked for
SessionPool(p) ==
    { Session("s1", "type-2", 3, At(1, 10, 0), At(1, 11, 0)),
      Session("s2", "type-1", p, At(1, 9, 30), At(1, 10, 0)),
      Session("s3", "type-3", 4, At(2, 6, 0), At(2, 8, 0)) }

\* a Tuesday (no window in the pool) that already holds four sessions
BusyDay ==
    << Session("b1", "type-2", 3, At(2, 6, 0), At(2, 7, 0)),
       Session("b2", "type-2", 3, At(2, 9, 0), At(2, 10, 0)),
       Session("b3", "type-2", 3, At(2, 12, 0), At(2, 13, 0)),
       Session("b4", "type-2", 3, At(2, 15, 0), At(2, 16, 0)) >>

Range(q) == { q[i] : i \in DOMAIN q }

\* sequences of at most n distinct elements of S
RECURSIVE DistinctSeqs(_, _)
DistinctSeqs(S, n) ==
    IF n = 0 THEN { << >> }
    ELSE LET shorter == DistinctSeqs(S, n - 1)
             longest == { q \in shorter : Len(q) = n - 1 }
         IN  shorter \cup
             UNION { { Append(q, x) : x \in S \ Range(q) } : q \in longest }

ExistingSessionsChoices(p) ==
    DistinctSeqs(SessionPool(p), MaxSessions) \cup { BusyDay }

SuggestionsInit ==
    /\ sessionType \in [id : { "type-1" }, priority : Priorities]
    /\ existingSessions \in ExistingSessionsChoices(sessionType.priority)
    /\ availabilityWindows \in DistinctSeqs(WindowPool, MaxWindows)
    /\ durationMinutes \in Durations
    /\ lookAheadDays \in 0..MaxLookAhead
    /\ now \in Clock
    /\ suggestions = << >>
    /\ calls = 0
    /\ calledAt = now
    /\ previous = << >>
    /\ previousAt = now

\* a caller invokes generateSuggestions on the arguments
CallGenerateSuggestions ==
    /\ calls < MaxCalls
    /\ suggestions' = generateSuggestions(now, sessionType, existingSessions,
                          availabilityWindows, durationMinutes, lookAheadDays)
    /\ calledAt' = now
    /\ previous' = suggestions
    /\ previousAt' = calledAt
    /\ calls' = calls + 1
    /\ UNCHANGED << sessionType, existingSessions, availabilityWindows,
                    durationMinutes, lookAheadDays, now, apiVars, gen,
                    progVars, mobileVars, scoreVars, screenVars >>

\* time passes between two calls
Tick ==
    /\ calls >= 1
    /\ calledAt = now
    /\ \E t \in Clock : t > now /\ now' = t
    /\ UNCHANGED << sessionType, existingSessions, availabilityWindows,
                    durationMinutes, lookAheadDays, suggestions, calls,
                    calledAt, previous, previousAt, apiVars, gen,
                    progVars, mobileVars, scoreVars, screenVars >>

SuggestionsNext == CallGenerateSuggestions \/ Tick


-----------------------------------------------------------------------------
(* The sessions API: POST /api/sessions, PUT and DELETE /api/sessions/[id] *)
(*                                                                         *)
(* A handler runs up to its next database access that reads or writes the  *)
(* Session table in one step: what precedes the conflict query (reading    *)
(* the body, the SessionType lookup, the date validation) touches nothing  *)
(* another request can change, so it is taken together with the query.     *)
(* The conflict query and the write that follows it are separate steps.    *)
(* The SessionType table is not changed by these routes and is fixed.      *)
(*                                                                         *)
(* Two scenarios are explored.  In the first, two clients send requests    *)
(* that the server handles concurrently, and no PUT body carries the       *)
(* completed flag.  In the second, one client sends its requests one after *)
(* another, and a PUT body may carry completed = true.                     *)

MaxId == 2           \* sessions created in one behaviour
MaxTime == 2         \* instants a request body can name

\* the requests handled concurrently
Clients == { "c1", "c2" }
Times == 0..MaxTime

\* a string or boolean field that a request body does not carry (undefined)
Absent == "absent"

\* a time or id field that a request does not carry (undefined)
NoTime == 0 - 1

\* the rows of the SessionType table and an id that is not in it
SessionTypeIds == { "type-1" }
UnknownTypeId == "type-9"

\* date-fns parseISO of an ISO-8601 string: the instant it denotes
parseISO(str) == str

\* isAfter that also accepts equal dates
isAfterOrEqual(date, dateToCompare) == date >= dateToCompare

\* date-fns isAfter(date, dateToCompare)
isAfter(date, dateToCompare) == date > dateToCompare

\* ignored: the time field of a PUT body that came without the other one
Idle ==
    [op |-> "none", pc |-> "idle", status |-> 0, id |-> NoTime,
     sessionTypeId |-> Absent, startTime |-> NoTime, endTime |-> NoTime,
     completed |-> Absent, ignored |-> Absent]

\* the handler returned before the conflict query: the exchange keeps the
\* session type and the times of the body
Reject(r, status) ==
    [r EXCEPT !.pc = "done", !.status = status, !.id = NoTime,
              !.completed = Absent]

\* the handler returned after the conflict query
Respond(r, status) ==
    [Idle EXCEPT !.op = r.op, !.pc = "done", !.status = status,
                 !.ignored = r.ignored]

InFlightPosts ==
    Cardinality({ c \in Clients : req[c].op = "POST" /\ req[c].pc # "done" })

\* client c may send a request
CanSend(c) ==
    /\ req[c].pc \in { "idle", "done" }
    /\ oneAtATime => c = "c1"

\* the values of body.completed
BodyCompleted == IF oneAtATime THEN { Absent, "true" } ELSE { Absent }

ApiInit ==
    /\ oneAtATime \in BOOLEAN
    /\ sessionTable = {}
    /\ nextId = 1
    /\ req = [c \in Clients |-> Idle]

\* the POST query with non-strict comparisons
postConflictingSessionsClosed(table, startTime, endTime) ==
    { s \in table : s.startTime <= endTime /\ s.endTime >= startTime }

\* prisma.session.findMany of POST: startTime < endTime, endTime > startTime
postConflictingSessions(table, startTime, endTime) ==
    { s \in table : s.startTime < endTime /\ s.endTime > startTime }

\* the PUT query without "id: { not: id }"
putConflictingSessionsAll(table, id, startTime, endTime) ==
    { s \in table : s.startTime < endTime /\ s.endTime > startTime }

\* prisma.session.findMany of PUT: the same, excluding the updated row
putConflictingSessions(table, id, startTime, endTime) ==
    { s \in table : s.id # id /\ s.startTime < endTime /\ s.endTime > startTime }

\* the state of a POST after its body, type lookup, validation and query
postChecked(table, typeId, bodyStart, bodyEnd) ==
    LET r == [Idle EXCEPT !.op = "POST", !.sessionTypeId = typeId,
                          !.startTime = bodyStart, !.endTime = bodyEnd]
        startTime == parseISO(bodyStart)
        endTime == parseISO(bodyEnd)
    IN  IF typeId \notin SessionTypeIds THEN Reject(r, 404)
        ELSE IF ~isAfter(endTime, startTime) THEN Reject(r, 400)
        ELSE IF Cardinality(postConflictingSessions(table, startTime, endTime)) > 0
        THEN Respond(r, 409)
        ELSE [r EXCEPT !.pc = "create"]

\* POST up to and including the conflict query
PostCheck(c) ==
    /\ CanSend(c)
    /\ nextId + InFlightPosts <= MaxId
    /\ \E typeId \in SessionTypeIds \cup { UnknownTypeId },
          bodyStart \in Times, bodyEnd \in Times :
          req' = [req EXCEPT ![c] =
                     postChecked(sessionTable, typeId, bodyStart, bodyEnd)]
    /\ UNCHANGED << sessionTable, nextId, oneAtATime, suggVars, gen,
                    progVars, mobileVars, scoreVars, screenVars >>

\* POST: prisma.session.create and the 201 response
PostCreate(c) ==
    /\ req[c].op = "POST" /\ req[c].pc = "create"
    /\ sessionTable' = sessionTable \cup
          { [id |-> nextId, sessionTypeId |-> req[c].sessionTypeId,
             startTime |-> req[c].startTime, endTime |-> req[c].endTime,
             completed |-> FALSE] }
    /\ nextId' = nextId + 1
    /\ req' = [req EXCEPT ![c] = Respond(req[c], 201)]
    /\ UNCHANGED << oneAtATime, suggVars, gen, progVars, mobileVars, scoreVars,
                    screenVars >>

\* putChecked taking the times of a body that carries at least one of them
putCheckedEither(table, id, bodyCompleted, bodyStart, bodyEnd) ==
    LET r == [Idle EXCEPT !.op = "PUT", !.id = id, !.completed = bodyCompleted,
                          !.startTime = bodyStart, !.endTime = bodyEnd]
    IN  IF bodyStart # NoTime \/ bodyEnd # NoTime
        THEN LET startTime == parseISO(bodyStart)
                 endTime == parseISO(bodyEnd)
             IN  IF ~isAfter(endTime, startTime) THEN Reject(r, 400)
                 ELSE IF Cardinality(putConflictingSessions(
                                         table, id, startTime, endTime)) > 0
                 THEN Respond(r, 409)
                 ELSE [r EXCEPT !.pc = "update"]
        ELSE [r EXCEPT !.pc = "update"]

\* the state of a PUT after its body, validation and conflict query
putChecked(table, id, bodyCompleted, bodyStart, bodyEnd) ==
    LET r == [Idle EXCEPT !.op = "PUT", !.id = id, !.completed = bodyCompleted,
                          !.startTime = bodyStart, !.endTime = bodyEnd]
    IN  IF bodyStart # NoTime /\ bodyEnd # NoTime
        THEN LET startTime == parseISO(bodyStart)
                 endTime == parseISO(bodyEnd)
             IN  IF ~isAfter(endTime, startTime) THEN Reject(r, 400)
                 ELSE IF Cardinality(putConflictingSessions(
                                         table, id, startTime, endTime)) > 0
                 THEN Respond(r, 409)
                 ELSE [r EXCEPT !.pc = "update"]
        ELSE \* updateData carries no times
             [r EXCEPT !.pc = "update", !.startTime = NoTime, !.endTime = NoTime,
                       !.ignored = IF bodyStart # NoTime THEN "startTime"
                                   ELSE IF bodyEnd # NoTime THEN "endTime"
                                   ELSE Absent]

\* PUT up to and including the conflict query (a body without both times
\* goes straight to the update)
PutCheck(c) ==
    /\ CanSend(c)
    /\ \E id \in 1..MaxId, bodyCompleted \in BodyCompleted,
          bodyStart \in Times \cup { NoTime }, bodyEnd \in Times \cup { NoTime } :
          req' = [req EXCEPT ![c] =
                     putChecked(sessionTable, id, bodyCompleted, bodyStart, bodyEnd)]
    /\ UNCHANGED << sessionTable, nextId, oneAtATime, suggVars, gen,
                    progVars, mobileVars, scoreVars, screenVars >>

\* the row after prisma.session.update with the request's updateData
updatedRow(row, r) ==
    [row EXCEPT
        !.completed = IF r.completed # Absent THEN r.completed = "true" ELSE @,
        !.startTime = IF r.startTime # NoTime THEN r.startTime ELSE @,
        !.endTime = IF r.endTime # NoTime THEN r.endTime ELSE @]

\* PUT: prisma.session.update; a missing row raises P2025, answered with 404
PutUpdate(c) ==
    /\ req[c].op = "PUT" /\ req[c].pc = "update"
    /\ IF \E s \in sessionTable : s.id = req[c].id
       THEN /\ sessionTable' =
                  { IF s.id = req[c].id THEN updatedRow(s, req[c]) ELSE s :
                       s \in sessionTable }
            /\ req' = [req EXCEPT ![c] = Respond(req[c], 200)]
       ELSE /\ sessionTable' = sessionTable
            /\ req' = [req EXCEPT ![c] = Respond(req[c], 404)]
    /\ UNCHANGED << nextId, oneAtATime, suggVars, gen, progVars, mobileVars,
                    scoreVars, screenVars >>

\* DELETE: prisma.session.delete; a missing row raises, answered with 500
Delete(c) ==
    /\ CanSend(c)
    /\ \E id \in 1..MaxId :
          LET r == [Idle EXCEPT !.op = "DELETE"]
          IN  IF \E s \in sessionTable : s.id = id
              THEN /\ sessionTable' = { s \in sessionTable : s.id # id }
                   /\ req' = [req EXCEPT ![c] = Respond(r, 200)]
              ELSE /\ sessionTable' = sessionTable
                   /\ req' = [req EXCEPT ![c] = Respond(r, 500)]
    /\ UNCHANGED << nextId, oneAtATime, suggVars, gen, progVars, mobileVars,
                    scoreVars, screenVars >>

ApiNext ==
    \E c \in Clients :
        \/ PostCheck(c)
        \/ PostCreate(c)
        \/ PutCheck(c)
        \/ PutUpdate(c)
        \/ Delete(c)

-----------------------------------------------------------------------------
(* generateSuggestions statement by statement: one step per loop iteration *)

NotStarted ==
    [pc |-> "entry", dayOffset |-> 0, windows |-> << >>, currentTime |-> 0,
     windowEnd |-> 0, slots |-> << >>, suggestions |-> << >>, result |-> << >>]

GenToday == setHours(now, 0, 0)
GenDate == addHours(GenToday, gen.dayOffset * Hours(24))

\* const suggestions = []; const today = new Date(); today.setHours(0,0,0,0)
GenEnter ==
    /\ gen.pc = "entry"
    /\ gen' = [gen EXCEPT !.pc = "dayLoop"]
    /\ UNCHANGED << suggVars, apiVars, progVars, mobileVars, scoreVars,
                    screenVars >>

\* the loop test; on entry to the body, the head of generateTimeSlots
GenDayLoop ==
    /\ gen.pc = "dayLoop"
    /\ IF dayLoopContinues(gen.dayOffset, lookAheadDays)
       THEN LET windows == SelectSeq(availabilityWindows,
                               LAMBDA w : w.dayOfWeek = getDay(GenDate))
            IN  IF Len(windows) = 0
                THEN gen' = [gen EXCEPT !.pc = "defaultLoop",
                                        !.slots = << >>,
                                        !.currentTime = setHours(GenDate, 6, 0),
                                        !.windowEnd = setHours(GenDate, 22, 0)]
                ELSE gen' = [gen EXCEPT !.pc = "forEachWindow",
                                        !.slots = << >>,
                                        !.windows = windows]
       ELSE gen' = [gen EXCEPT !.pc = "sort"]
    /\ UNCHANGED << suggVars, apiVars, progVars, mobileVars, scoreVars,
                    screenVars >>

\* one iteration of the while loop over the default hours
GenDefaultLoop ==
    /\ gen.pc = "defaultLoop"
    /\ IF addHours(gen.currentTime, durationMinutes) <= gen.windowEnd
       THEN gen' = [gen EXCEPT !.slots = Append(@, gen.currentTime),
                               !.currentTime = addHours(@, 30)]
       ELSE gen' = [gen EXCEPT !.pc = "score"]
    /\ UNCHANGED << suggVars, apiVars, progVars, mobileVars, scoreVars,
                    screenVars >>

\* windows.forEach: the next window, or the return of generateTimeSlots
GenForEachWindow ==
    /\ gen.pc = "forEachWindow"
    /\ IF gen.windows = << >>
       THEN gen' = [gen EXCEPT !.pc = "score"]
       ELSE LET s == splitHM(Head(gen.windows).startTime)
                e == splitHM(Head(gen.windows).endTime)
            IN  gen' = [gen EXCEPT !.pc = "windowLoop",
                                   !.windows = Tail(@),
                                   !.currentTime = setHours(GenDate, s.hour, s.minute),
                                   !.windowEnd = setHours(GenDate, e.hour, e.minute)]
    /\ UNCHANGED << suggVars, apiVars, progVars, mobileVars, scoreVars,
                    screenVars >>

\* one iteration of the while loop over an availability window
GenWindowLoop ==
    /\ gen.pc = "windowLoop"
    /\ IF addHours(gen.currentTime, durationMinutes) <= gen.windowEnd
       THEN gen' = [gen EXCEPT !.slots = Append(@, gen.currentTime),
                               !.currentTime = addHours(@, 30)]
       ELSE gen' = [gen EXCEPT !.pc = "forEachWindow"]
    /\ UNCHANGED << suggVars, apiVars, progVars, mobileVars, scoreVars,
                    screenVars >>

\* timeSlots.forEach: one call of the callback (conflict filter, score,
\* threshold, push), or the end of the loop body and dayOffset++
GenScore ==
    /\ gen.pc = "score"
    /\ IF gen.slots = << >>
       THEN gen' = [gen EXCEPT !.pc = "dayLoop", !.dayOffset = @ + 1]
       ELSE IF isSuggested(Head(gen.slots), sessionType, existingSessions,
                           availabilityWindows, durationMinutes)
       THEN gen' = [gen EXCEPT
                       !.slots = Tail(@),
                       !.suggestions =
                           Append(@, makeSuggestion(Head(gen.slots), sessionType,
                                         existingSessions, availabilityWindows,
                                         durationMinutes))]
       ELSE gen' = [gen EXCEPT !.slots = Tail(@)]
    /\ UNCHANGED << suggVars, apiVars, progVars, mobileVars, scoreVars,
                    screenVars >>

\* return R.pipe(R.sortBy(...), R.take(10))(suggestions)
GenSort ==
    /\ gen.pc = "sort"
    /\ gen' = [gen EXCEPT !.pc = "done",
                          !.result = take(10, sortByScore(gen.suggestions))]
    /\ UNCHANGED << suggVars, apiVars, progVars, mobileVars, scoreVars,
                    screenVars >>

GenNext ==
    \/ GenEnter
    \/ GenDayLoop
    \/ GenDefaultLoop
    \/ GenForEachWindow
    \/ GenWindowLoop
    \/ GenScore
    \/ GenSort

-----------------------------------------------------------------------------
(* Progress statistics: api/app/model/progress.ts *)
(* averageSpacing is carried as an exact fraction of days and, once       *)
(* rounded, as an integer number of tenths of a day.                       *)

\* the property names that are array indices, with their numeric value
\* (one-digit indices are enough for the inputs below)
ArrayIndex ==
    ("0" :> 0) @@ ("1" :> 1) @@ ("2" :> 2) @@ ("3" :> 3) @@ ("4" :> 4) @@
    ("5" :> 5) @@ ("6" :> 6) @@ ("7" :> 7) @@ ("8" :> 8) @@ ("9" :> 9)

isArrayIndex(key) == key \in DOMAIN ArrayIndex

\* the integers of S in ascending order
RECURSIVE ascending(_)
ascending(S) ==
    IF S = {} THEN << >>
    ELSE << SetMin(S) >> \o ascending(S \ { SetMin(S) })

\* the distinct sessionTypeIds of list in the order of their first occurrence
RECURSIVE firstOccurrences(_)
firstOccurrences(list) ==
    IF list = << >> THEN << >>
    ELSE LET rest == firstOccurrences(SubSeq(list, 1, Len(list) - 1))
             key  == list[Len(list)].sessionTypeId
         IN  IF key \in Range(rest) THEN rest ELSE Append(rest, key)

\* R.groupBy(session => session.sessionTypeId): a JavaScript object, given by
\* its property names in the order of their creation and by their values
groupBy(list) ==
    [created |-> firstOccurrences(list),
     value   |-> [key \in Range(firstOccurrences(list)) |->
                     SelectSeq(list, LAMBDA x : x.sessionTypeId = key)]]

\* the own property names of a JavaScript object in enumeration order: the
\* array indices in ascending numeric order, then the other names in the order
\* of their creation
ownKeys(obj) ==
    LET indices == ascending({ ArrayIndex[k] :
                       k \in { c \in Range(obj.created) : isArrayIndex(c) } })
        names   == [i \in DOMAIN indices |->
                       CHOOSE k \in DOMAIN ArrayIndex : ArrayIndex[k] = indices[i]]
    IN  names \o SelectSeq(obj.created, LAMBDA k : ~ isArrayIndex(k))

\* R.toPairs
toPairs(obj) ==
    LET keys == ownKeys(obj)
    IN  [i \in DOMAIN keys |-> << keys[i], obj.value[keys[i]] >>]

\* the elements of list whose key -count lies in key..lastKey, by ascending
\* key, elements of equal key in the order of the list
RECURSIVE sortByCountKeys(_, _, _)
sortByCountKeys(list, key, lastKey) ==
    IF key > lastKey THEN << >>
    ELSE SelectSeq(list, LAMBDA item : 0 - item.count = key)
           \o sortByCountKeys(list, key + 1, lastKey)

\* a sort by count that puts the smallest count first
sortByCountAscending(list) ==
    IF list = << >> THEN << >>
    ELSE LET sorted == sortByCountKeys(list,
                           SetMin({ 0 - list[i].count : i \in DOMAIN list }),
                           SetMax({ 0 - list[i].count : i \in DOMAIN list }))
         IN  [i \in DOMAIN sorted |-> sorted[Len(sorted) + 1 - i]]

\* R.sortBy(item => -item.count): a stable sort by the key -count
sortByCount(list) ==
    IF list = << >> THEN << >>
    ELSE LET keys == { 0 - list[i].count : i \in DOMAIN list }
         IN  sortByCountKeys(list, SetMin(keys), SetMax(keys))

calculateSessionsByType(list) ==
    LET pairs == toPairs(groupBy(list))
    IN  sortByCount([i \in DOMAIN pairs |->
            [sessionTypeId   |-> pairs[i][1],
             sessionTypeName |-> pairs[i][2][1].sessionType.name,
             count           |-> Len(pairs[i][2])]])

\* R.sortBy(session => new Date(session.startTime).getTime()): ascending
\* startTime, elements of equal startTime in the order of the list
RECURSIVE sortByStartTime(_)
sortByStartTime(list) ==
    IF list = << >> THEN << >>
    ELSE LET k == SetMin({ list[i].startTime : i \in DOMAIN list })
         IN  SelectSeq(list, LAMBDA x : x.startTime = k)
               \o sortByStartTime(SelectSeq(list, LAMBDA x : x.startTime # k))

\* R.aperture(2) followed by the map to differenceInHours(currStart, prevEnd)
spacingsOf(sortedSessions) ==
    [i \in 1..(Len(sortedSessions) - 1) |->
        differenceInHours(sortedSessions[i + 1].startTime,
                          sortedSessions[i].endTime)]

\* R.sum
RECURSIVE sum(_)
sum(list) ==
    IF list = << >> THEN 0 ELSE list[1] + sum(Tail(list))

\* calculateAverageSpacing that measures the gaps in the order of the input
calculateAverageSpacingInputOrder(list) ==
    IF Len(list) < 2 THEN [num |-> 0, den |-> 1]
    ELSE [num |-> sum(spacingsOf(list)),
          den |-> Len(spacingsOf(list)) * 24]

\* the result in days as the fraction num / den
calculateAverageSpacing(list) ==
    IF Len(list) < 2 THEN [num |-> 0, den |-> 1]
    ELSE LET spacings == spacingsOf(sortByStartTime(list))
         IN  IF Len(spacings) = 0 THEN [num |-> 0, den |-> 1]
             ELSE [num |-> sum(spacings), den |-> Len(spacings) * 24]

\* Math.floor((totalCompleted / totalScheduled) * 100) in place of Math.round
completionRateOfFloor(totalCompleted, totalScheduled) ==
    IF totalScheduled > 0 THEN (100 * totalCompleted) \div totalScheduled
                          ELSE 0

\* Math.round((totalCompleted / totalScheduled) * 100), or 0
completionRateOf(totalCompleted, totalScheduled) ==
    IF totalScheduled > 0
    THEN (200 * totalCompleted + totalScheduled) \div (2 * totalScheduled)
    ELSE 0

\* Math.round(averageSpacing * 10) / 10, in tenths
roundToTenths(x) == (20 * x.num + x.den) \div (2 * x.den)

calculateProgressStats(list) ==
    LET totalScheduled == Len(list)
        totalCompleted == Len(SelectSeq(list, LAMBDA x : x.completed))
    IN  [totalScheduled |-> totalScheduled,
         totalCompleted |-> totalCompleted,
         completionRate |-> completionRateOf(totalCompleted, totalScheduled),
         sessionsByType |-> calculateSessionsByType(list),
         averageSpacing |-> roundToTenths(calculateAverageSpacing(list))]

(* Inputs of calculateProgressStats *)

MaxStatSessions == 3

ProgressSession(id, typeId, startTime, endTime, completed) ==
    [id |-> id, sessionTypeId |-> typeId,
     sessionType |-> [id |-> typeId, name |-> typeId],
     startTime |-> startTime, endTime |-> endTime, completed |-> completed]

ProgressPool ==
    { ProgressSession("a", "type-1", At(1, 10, 0), At(1, 11, 0), TRUE),
      ProgressSession("b", "type-1", At(2, 10, 0), At(2, 11, 0), FALSE),
      ProgressSession("c", "type-2", At(1, 12, 30), At(1, 13, 0), FALSE),
      ProgressSession("d", "7", At(3, 9, 0), At(3, 10, 0), TRUE),
      ProgressSession("e", "3", At(1, 8, 0), At(1, 20, 0), FALSE),
      ProgressSession("f", "type-2", At(1, 10, 0), At(1, 10, 30), TRUE) }

\* calculateProgressStats has not been called
NoStats == [totalScheduled |-> 0 - 1]

ProgressInit ==
    /\ allSessions \in DistinctSeqs(ProgressPool, MaxStatSessions)
    /\ stats = NoStats

\* GET /api/progress: the statistics of the session list
CallCalculateProgressStats ==
    /\ stats = NoStats
    /\ stats' = calculateProgressStats(allSessions)
    /\ UNCHANGED << allSessions, suggVars, apiVars, gen, mobileVars, scoreVars,
                    screenVars >>

ProgressNext == CallCalculateProgressStats

-----------------------------------------------------------------------------
(* The mobile sessions store: mobile/src/controller/sessionsStore.ts *)
(* A store method runs as a task; a task gives up control at each await,   *)
(* so the steps of different tasks interleave at the awaits.  A write to   *)
(* AsyncStorage takes effect when it is issued and does not fail.  The     *)
(* server orders sessions by startTime, which grows with the session id.   *)

MaxOps == 3
MaxCreated == 1

\* the concurrent callers of the store
Tasks == { "t1", "t2" }

\* the subscribers; the callback of a listener in Throwing throws
Listeners == { "l1", "l2" }
Throwing == { "l1" }

\* syncPromise = null
NoPromise == "null"

StoreSession(id, completed) == [id |-> id, completed |-> completed]

IdleTask ==
    [op |-> "none", pc |-> "idle", id |-> 0, completed |-> FALSE,
     response |-> << >>, status |-> "none", awaits |-> NoPromise,
     newList |-> << >>, subscribed |-> << >>]

\* the task has called the method op and waits for the server
Calling(op, id, completed) ==
    [IdleTask EXCEPT !.op = op, !.pc = "sent", !.id = id,
                     !.completed = completed]

\* Settled for a method that swallows the error and returns
SettledOk(task, status) ==
    [IdleTask EXCEPT !.op = task.op, !.pc = "done", !.status = "ok"]

\* the method returned (status "ok") or threw (status "error")
Settled(task, status) ==
    [IdleTask EXCEPT !.op = task.op, !.pc = "done", !.status = status]

StoreInit ==
    /\ store = [sessions |-> << >>, listeners |-> << >>,
                syncPromise |-> NoPromise, cache |-> << >>,
                notified |-> [called |-> << >>, list |-> << >>],
                tasks |-> [t \in Tasks |-> IdleTask], started |-> 0]
    /\ server = [sessions |-> {}, nextId |-> 1]

CanCall(t) ==
    /\ store.tasks[t].pc \in { "idle", "done" }
    /\ store.started < MaxOps

\* the tasks that wait for the promise of the sync started by task t
Joined(t) == { u \in Tasks : store.tasks[u].awaits = t }

\* the store after a step in which notifyListeners did not run: notified
\* holds the calls of listeners made by the latest step
Quiet(st) == [st EXCEPT !.notified = [called |-> << >>, list |-> << >>]]

\* a guard that never sees a sync in flight
syncInFlightNever(st) == FALSE

\* if (this.syncPromise)
syncInFlight(st) == st.syncPromise # NoPromise

\* notifyListeners without the try/catch: the first throwing listener ends
\* the forEach
notifyListenersNoCatch(listeners, sessions) ==
    LET throwers == { i \in DOMAIN listeners : listeners[i] \in Throwing }
    IN  [called |-> IF throwers = {} THEN listeners
                    ELSE SubSeq(listeners, 1, SetMin(throwers)),
         list   |-> sessions]

\* notifyListeners: the listeners called, in order, and the copy they get
notifyListeners(listeners, sessions) ==
    [called |-> listeners, list |-> sessions]

\* syncWithServer up to its first await
SyncCall(t) ==
    /\ CanCall(t)
    /\ IF syncInFlight(store)
       THEN store' = Quiet([store EXCEPT
                !.tasks[t] = [IdleTask EXCEPT !.op = "sync", !.pc = "joined",
                                              !.awaits = store.syncPromise],
                !.started = @ + 1])
       ELSE store' = Quiet([store EXCEPT
                !.tasks[t] = Calling("sync", 0, FALSE),
                !.syncPromise = t,
                !.started = @ + 1])
    /\ UNCHANGED << server, hook, suggVars, apiVars, gen, progVars, scoreVars,
                    screenVars >>

\* the rows of GET /api/sessions
getAll(srv) ==
    LET ids == ascending({ x.id : x \in srv.sessions })
    IN  [i \in DOMAIN ids |-> CHOOSE x \in srv.sessions : x.id = ids[i]]

\* the server answers sessionsAPI.getAll(), or the request fails
ServerGetAll(t) ==
    /\ store.tasks[t].op = "sync"
    /\ store.tasks[t].pc = "sent"
    /\ \/ store' = Quiet([store EXCEPT !.tasks[t].pc = "responded",
                                 !.tasks[t].status = "ok",
                                 !.tasks[t].response = getAll(server)])
       \/ store' = Quiet([store EXCEPT !.tasks[t].pc = "responded",
                                 !.tasks[t].status = "error"])
    /\ UNCHANGED << server, hook, suggVars, apiVars, gen, progVars, scoreVars,
                    screenVars >>

\* syncWithServer after await sessionsAPI.getAll(): the assignment and the
\* call of saveToCache
SyncReceive(t) ==
    /\ store.tasks[t].op = "sync"
    /\ store.tasks[t].pc = "responded"
    /\ store.tasks[t].status = "ok"
    /\ store' = Quiet([store EXCEPT
            !.sessions = store.tasks[t].response,
            !.cache = store.tasks[t].response,
            !.tasks[t].pc = "saved",
            !.tasks[t].newList = store.tasks[t].response,
            !.tasks[t].subscribed = store.listeners])
    /\ UNCHANGED << server, hook, suggVars, apiVars, gen, progVars, scoreVars,
                    screenVars >>

\* syncWithServer after await this.saveToCache(): notifyListeners, then the
\* finally block; the promise resolves
SyncNotify(t) ==
    /\ store.tasks[t].op = "sync"
    /\ store.tasks[t].pc = "saved"
    /\ store' = [store EXCEPT
            !.notified = notifyListeners(store.listeners, store.sessions),
            !.syncPromise = NoPromise,
            !.tasks = [u \in Tasks |->
                IF u = t \/ u \in Joined(t) THEN Settled(store.tasks[u], "ok")
                ELSE store.tasks[u]]]
    /\ UNCHANGED << server, hook, suggVars, apiVars, gen, progVars, scoreVars,
                    screenVars >>

\* syncWithServer when sessionsAPI.getAll() rejects: the catch block rethrows
\* and the finally block runs; the promise rejects
SyncFail(t) ==
    /\ store.tasks[t].op = "sync"
    /\ store.tasks[t].pc = "responded"
    /\ store.tasks[t].status = "error"
    /\ store' = Quiet([store EXCEPT
            !.syncPromise = NoPromise,
            !.tasks = [u \in Tasks |->
                IF u = t \/ u \in Joined(t) THEN Settled(store.tasks[u], "error")
                ELSE store.tasks[u]]])
    /\ UNCHANGED << server, hook, suggVars, apiVars, gen, progVars, scoreVars,
                    screenVars >>

\* createSession up to await sessionsAPI.create(data)
CreateCall(t) ==
    /\ CanCall(t)
    /\ store' = Quiet([store EXCEPT !.tasks[t] = Calling("create", 0, FALSE),
                              !.started = @ + 1])
    /\ UNCHANGED << server, hook, suggVars, apiVars, gen, progVars, scoreVars,
                    screenVars >>

\* POST /api/sessions as the store sees it: 201 with the new row, or an error
ServerCreate(t) ==
    /\ store.tasks[t].op = "create"
    /\ store.tasks[t].pc = "sent"
    /\ \/ /\ server.nextId <= MaxCreated
          /\ server' = [sessions |-> server.sessions
                                       \cup { StoreSession(server.nextId, FALSE) },
                        nextId   |-> server.nextId + 1]
          /\ store' = Quiet([store EXCEPT
                 !.tasks[t].pc = "responded",
                 !.tasks[t].status = "ok",
                 !.tasks[t].response = << StoreSession(server.nextId, FALSE) >>])
       \/ /\ store' = Quiet([store EXCEPT !.tasks[t].pc = "responded",
                                    !.tasks[t].status = "error"])
          /\ UNCHANGED server
    /\ UNCHANGED << hook, suggVars, apiVars, gen, progVars, scoreVars,
                    screenVars >>

\* createSession after the await: the new session is appended and saved, or
\* the rejection is thrown to the caller
CreateReceive(t) ==
    /\ store.tasks[t].op = "create"
    /\ store.tasks[t].pc = "responded"
    /\ IF store.tasks[t].status = "ok"
       THEN LET sessions == store.sessions \o store.tasks[t].response
            IN  store' = Quiet([store EXCEPT
                    !.sessions = sessions,
                    !.cache = sessions,
                    !.tasks[t].pc = "saved",
                    !.tasks[t].newList = sessions,
                    !.tasks[t].subscribed = store.listeners])
       ELSE store' = Quiet([store EXCEPT !.tasks[t] = Settled(@, "error")])
    /\ UNCHANGED << server, hook, suggVars, apiVars, gen, progVars, scoreVars,
                    screenVars >>

\* updateSession up to await sessionsAPI.update(id, data); the caller names a
\* session of the list it shows
UpdateCall(t) ==
    /\ CanCall(t)
    /\ \E id \in { x.id : x \in Range(store.sessions) }, completed \in BOOLEAN :
          store' = Quiet([store EXCEPT !.tasks[t] = Calling("update", id, completed),
                                 !.started = @ + 1])
    /\ UNCHANGED << server, hook, suggVars, apiVars, gen, progVars, scoreVars,
                    screenVars >>

\* PUT /api/sessions/[id] as the store sees it: the updated row, or an error
\* (always an error when the row does not exist)
ServerUpdate(t) ==
    /\ store.tasks[t].op = "update"
    /\ store.tasks[t].pc = "sent"
    /\ LET id      == store.tasks[t].id
           updated == StoreSession(id, store.tasks[t].completed)
       IN  \/ /\ \E x \in server.sessions : x.id = id
              /\ server' = [server EXCEPT !.sessions =
                               { x \in @ : x.id # id } \cup { updated }]
              /\ store' = Quiet([store EXCEPT !.tasks[t].pc = "responded",
                                        !.tasks[t].status = "ok",
                                        !.tasks[t].response = << updated >>])
           \/ /\ store' = Quiet([store EXCEPT !.tasks[t].pc = "responded",
                                        !.tasks[t].status = "error"])
              /\ UNCHANGED server
    /\ UNCHANGED << hook, suggVars, apiVars, gen, progVars, scoreVars,
                    screenVars >>

\* updateSession after the await
UpdateReceive(t) ==
    /\ store.tasks[t].op = "update"
    /\ store.tasks[t].pc = "responded"
    /\ IF store.tasks[t].status = "ok"
       THEN LET sessions == [i \in DOMAIN store.sessions |->
                                IF store.sessions[i].id = store.tasks[t].id
                                THEN store.tasks[t].response[1]
                                ELSE store.sessions[i]]
            IN  store' = Quiet([store EXCEPT
                    !.sessions = sessions,
                    !.cache = sessions,
                    !.tasks[t].pc = "saved",
                    !.tasks[t].newList = sessions,
                    !.tasks[t].subscribed = store.listeners])
       ELSE store' = Quiet([store EXCEPT !.tasks[t] = Settled(@, "error")])
    /\ UNCHANGED << server, hook, suggVars, apiVars, gen, progVars, scoreVars,
                    screenVars >>

\* deleteSession up to await sessionsAPI.delete(id)
DeleteCall(t) ==
    /\ CanCall(t)
    /\ \E id \in { x.id : x \in Range(store.sessions) } :
          store' = Quiet([store EXCEPT !.tasks[t] = Calling("delete", id, FALSE),
                                 !.started = @ + 1])
    /\ UNCHANGED << server, hook, suggVars, apiVars, gen, progVars, scoreVars,
                    screenVars >>

\* DELETE /api/sessions/[id] as the store sees it: the row is deleted, or an
\* error (always an error when the row does not exist)
ServerDelete(t) ==
    /\ store.tasks[t].op = "delete"
    /\ store.tasks[t].pc = "sent"
    /\ \/ /\ \E x \in server.sessions : x.id = store.tasks[t].id
          /\ server' = [server EXCEPT !.sessions =
                           { x \in @ : x.id # store.tasks[t].id }]
          /\ store' = Quiet([store EXCEPT !.tasks[t].pc = "responded",
                                    !.tasks[t].status = "ok"])
       \/ /\ store' = Quiet([store EXCEPT !.tasks[t].pc = "responded",
                                    !.tasks[t].status = "error"])
          /\ UNCHANGED server
    /\ UNCHANGED << hook, suggVars, apiVars, gen, progVars, scoreVars,
                    screenVars >>

\* deleteSession after the await
DeleteReceive(t) ==
    /\ store.tasks[t].op = "delete"
    /\ store.tasks[t].pc = "responded"
    /\ IF store.tasks[t].status = "ok"
       THEN LET sessions == SelectSeq(store.sessions,
                                LAMBDA x : x.id # store.tasks[t].id)
            IN  store' = Quiet([store EXCEPT
                    !.sessions = sessions,
                    !.cache = sessions,
                    !.tasks[t].pc = "saved",
                    !.tasks[t].newList = sessions,
                    !.tasks[t].subscribed = store.listeners])
       ELSE store' = Quiet([store EXCEPT !.tasks[t] = Settled(@, "error")])
    /\ UNCHANGED << server, hook, suggVars, apiVars, gen, progVars, scoreVars,
                    screenVars >>

\* createSession, updateSession and deleteSession after
\* await this.saveToCache(): notifyListeners, then the method returns
MutationNotify(t) ==
    /\ store.tasks[t].op \in { "create", "update", "delete" }
    /\ store.tasks[t].pc = "saved"
    /\ store' = [store EXCEPT
            !.notified = notifyListeners(store.listeners, store.sessions),
            !.tasks[t] = Settled(@, "ok")]
    /\ UNCHANGED << server, hook, suggVars, apiVars, gen, progVars, scoreVars,
                    screenVars >>

\* subscribe(listener): Set.add keeps the order of insertion
Subscribe(l) ==
    /\ l \notin Range(store.listeners)
    /\ store' = Quiet([store EXCEPT !.listeners = Append(@, l)])
    /\ UNCHANGED << server, hook, suggVars, apiVars, gen, progVars, scoreVars,
                    screenVars >>

\* the function returned by subscribe(listener)
Unsubscribe(l) ==
    /\ l \in Range(store.listeners)
    /\ store' = Quiet([store EXCEPT !.listeners = SelectSeq(@, LAMBDA x : x # l)])
    /\ UNCHANGED << server, hook, suggVars, apiVars, gen, progVars, scoreVars,
                    screenVars >>

StoreNext ==
    \/ \E t \in Tasks :
          \/ SyncCall(t) \/ ServerGetAll(t) \/ SyncReceive(t)
          \/ SyncNotify(t) \/ SyncFail(t)
          \/ CreateCall(t) \/ ServerCreate(t) \/ CreateReceive(t)
          \/ UpdateCall(t) \/ ServerUpdate(t) \/ UpdateReceive(t)
          \/ DeleteCall(t) \/ ServerDelete(t) \/ DeleteReceive(t)
          \/ MutationNotify(t)
    \/ \E l \in Listeners : Subscribe(l) \/ Unsubscribe(l)

-----------------------------------------------------------------------------
(* The useSuggestions hook: mobile/src/controller/useSuggestions.ts *)
(* One call of the hook's functions runs at a time.                        *)

MaxTypes == 2

\* the session types of the application
TypePool == { "type-1", "type-2", "type-3" }

Suggested(typeId, startTime, score) ==
    [sessionTypeId |-> typeId, startTime |-> startTime, score |-> score]

\* the answers GET /api/suggestions can give for a session type: lists in
\* non-increasing order of score
ResultsOf(typeId) ==
    { << Suggested(typeId, At(1, 9, 0), 80), Suggested(typeId, At(1, 9, 30), 50) >>,
      << Suggested(typeId, At(2, 9, 0), 90), Suggested(typeId, At(2, 9, 30), 70),
         Suggested(typeId, At(2, 10, 0), 70), Suggested(typeId, At(2, 10, 30), 60),
         Suggested(typeId, At(2, 11, 0), 40), Suggested(typeId, At(2, 11, 30), 40) >> }

\* error === null
NoError == "null"

HookInit ==
    hook = [suggestions |-> << >>, loading |-> FALSE, error |-> NoError,
            pc |-> "idle", call |-> "none", sessionTypeIds |-> << >>, allResults |-> << >>,
            pending |-> {}, failed |-> {}]

\* allResults.flat()
RECURSIVE flat(_)
flat(lists) ==
    IF lists = << >> THEN << >> ELSE lists[1] \o flat(Tail(lists))

\* the first five of the combined list without the sort
topFiveUnsorted(combined) == SubSeq(combined, 1, Min(5, Len(combined)))

\* combined.sort((a, b) => b.score - a.score).slice(0, 5); the sort is stable
topFive(combined) ==
    LET sorted == sortByScore(combined)
    IN  SubSeq(sorted, 1, Min(5, Len(sorted)))

\* fetchSuggestions up to its await
FetchSuggestionsCall ==
    /\ hook.pc \in { "idle", "done" }
    /\ \E id \in TypePool :
          hook' = [hook EXCEPT !.loading = TRUE, !.error = NoError,
                               !.pc = "single", !.call = "fetchSuggestions",
                               !.sessionTypeIds = << id >>,
                               !.allResults = << >>, !.failed = {}]
    /\ UNCHANGED << store, server, suggVars, apiVars, gen, progVars, scoreVars,
                    screenVars >>

\* fetchSuggestions after its await: the data, or the catch block
FetchSuggestionsReceive ==
    /\ hook.pc = "single"
    /\ \/ \E data \in ResultsOf(hook.sessionTypeIds[1]) :
             hook' = [hook EXCEPT !.suggestions = data, !.loading = FALSE,
                                  !.pc = "done"]
       \/ hook' = [hook EXCEPT !.error = "Failed to fetch suggestions",
                               !.suggestions = << >>, !.loading = FALSE,
                               !.pc = "done"]
    /\ UNCHANGED << store, server, suggVars, apiVars, gen, progVars, scoreVars,
                    screenVars >>

\* fetchAllSuggestions up to await Promise.all(allPromises)
FetchAllCall ==
    /\ hook.pc \in { "idle", "done" }
    /\ \E ids \in DistinctSeqs(TypePool, MaxTypes) :
          IF Len(ids) = 0
          THEN hook' = [hook EXCEPT !.suggestions = << >>, !.pc = "done",
                                    !.call = "fetchAllSuggestions",
                                    !.sessionTypeIds = ids,
                                    !.allResults = << >>, !.failed = {}]
          ELSE hook' = [hook EXCEPT
                   !.loading = TRUE, !.error = NoError, !.pc = "all",
                   !.call = "fetchAllSuggestions",
                   !.sessionTypeIds = ids,
                   !.allResults = [i \in DOMAIN ids |-> << >>],
                   !.pending = DOMAIN ids, !.failed = {}]
    /\ UNCHANGED << store, server, suggVars, apiVars, gen, progVars, scoreVars,
                    screenVars >>

\* one of the parallel requests settles: its data, or [] from its catch
GetSuggestionsSettles(i) ==
    /\ hook.pc = "all"
    /\ i \in hook.pending
    /\ \/ \E data \in ResultsOf(hook.sessionTypeIds[i]) :
             hook' = [hook EXCEPT !.allResults[i] = data,
                                  !.pending = @ \ { i }]
       \/ hook' = [hook EXCEPT !.allResults[i] = << >>,
                               !.pending = @ \ { i },
                               !.failed = @ \cup { i }]
    /\ UNCHANGED << store, server, suggVars, apiVars, gen, progVars, scoreVars,
                    screenVars >>

\* fetchAllSuggestions after await Promise.all(allPromises)
FetchAllReceive ==
    /\ hook.pc = "all"
    /\ hook.pending = {}
    /\ hook' = [hook EXCEPT !.suggestions = topFive(flat(hook.allResults)),
                            !.loading = FALSE, !.pc = "done"]
    /\ UNCHANGED << store, server, suggVars, apiVars, gen, progVars, scoreVars,
                    screenVars >>

HookNext ==
    \/ FetchSuggestionsCall
    \/ FetchSuggestionsReceive
    \/ FetchAllCall
    \/ \E i \in 1..MaxTypes : GetSuggestionsSettles(i)
    \/ FetchAllReceive

-----------------------------------------------------------------------------
(* The body of the forEach over the time slots, for one slot *)

MaxScored == 3

NoScore == [total |-> 0 - 1]

NoReason == "null"

\* a Wednesday slot, at 09:00, 10:00, 14:00 or 19:00
SlotStarts == { At(3, 9, 0), At(3, 10, 0), At(3, 14, 0), At(3, 19, 0) }

\* sessions of other types around the Wednesday: 48 hours before 09:00,
\* 48 hours after 09:00, the same afternoon, 48.5 hours after 10:00 and one
\* of ordinary priority the day before; and two sessions of "type-1", whose
\* priority is p: on Monday afternoon and on Wednesday from 13:00 to 13:30
ScorePool(p) ==
    { Session("h1", "type-2", 4, At(1, 9, 0), At(1, 10, 0)),
      Session("h2", "type-3", 5, At(5, 9, 0), At(5, 10, 0)),
      Session("h3", "type-2", 4, At(3, 14, 0), At(3, 15, 0)),
      Session("h4", "type-3", 5, At(5, 10, 30), At(5, 11, 30)),
      Session("l1", "type-4", 3, At(2, 9, 0), At(2, 10, 0)),
      Session("m0", "type-1", p, At(1, 13, 0), At(1, 14, 0)),
      Session("m1", "type-1", p, At(3, 13, 0), At(3, 13, 30)) }

ScoreWindows ==
    { << >>,
      << [dayOfWeek |-> 3, startTime |-> << 9, 0 >>, endTime |-> << 11, 0 >>] >> }

ScoreInit ==
    /\ scored \in [startTime : SlotStarts,
                   duration : { 60 },
                   sessionType : [id : { "type-1" }, priority : 1..5],
                   existingSessions :
                       UNION { DistinctSeqs(ScorePool(p), MaxScored) : p \in 1..5 },
                   availabilityWindows : ScoreWindows,
                   result : { NoScore }]
    /\ \A i \in DOMAIN scored.existingSessions :
          scored.existingSessions[i].sessionTypeId = scored.sessionType.id
             => scored.existingSessions[i].priority = scored.sessionType.priority

\* the value of scoreTimeSlot for a type of the given priority
scoreOf(call, priority) ==
    scoreTimeSlot(call.startTime, addHours(call.startTime, call.duration),
                  [call.sessionType EXCEPT !.priority = priority],
                  call.existingSessions, call.availabilityWindows)

\* "const score = scoreTimeSlot(...)" for a slot
CallScoreTimeSlot ==
    /\ scored.result = NoScore
    /\ scored' =
          [scored EXCEPT !.result =
              [priorityScore |->
                   calculatePriorityScore(scored.sessionType.priority),
               fatigueScore |->
                   calculateFatigueScore(scored.startTime,
                                         scored.sessionType.priority,
                                         scored.existingSessions),
               total |-> scoreOf(scored, scored.sessionType.priority),
               reason |-> NoReason]]
    /\ UNCHANGED << suggVars, apiVars, gen, progVars, mobileVars,
                    screenVars >>

\* "if (conflicts) return; ... if (score >= 30) { const reason = ..."
CallGenerateReason ==
    /\ scored.result # NoScore
    /\ scored.result.reason = NoReason
    /\ ~conflicts(scored.startTime,
                  addHours(scored.startTime, scored.duration),
                  scored.existingSessions)
    /\ ScoreAtLeast30(scored.result.total)
    /\ scored' =
          [scored EXCEPT !.result.reason =
              generateReason(scored.startTime, scored.sessionType.priority,
                             scored.existingSessions, scored.sessionType.id)]
    /\ UNCHANGED << suggVars, apiVars, gen, progVars, mobileVars,
                    screenVars >>

ScoreNext == CallScoreTimeSlot \/ CallGenerateReason

-----------------------------------------------------------------------------
(* The conflict marks of the mobile screens *)

MaxShown == 3

MaxInstant == 3

\* date-fns isBefore(date, dateToCompare)
isBefore(date, dateToCompare) == date < dateToCompare

sessionsOverlap(session1, session2) ==
    LET start1 == parseISO(session1.startTime)
        end1 == parseISO(session1.endTime)
        start2 == parseISO(session2.startTime)
        end2 == parseISO(session2.endTime)
    IN  \/ isAfter(start2, start1) /\ isBefore(start2, end1)
        \/ isAfter(end2, start1) /\ isBefore(end2, end1)
        \/ isBefore(start2, start1) /\ isAfter(end2, end1)

findConflictingSessions(session, shown) ==
    SelectSeq(shown, LAMBDA other :
                         IF other.id = session.id THEN FALSE
                         ELSE sessionsOverlap(session, other))

NotRendered == 0

\* the sessions of the list: distinct ids, each starting before it ends
ShownSessions ==
    UNION { [1..n -> { iv \in [startTime : 0..MaxInstant,
                              endTime : 0..MaxInstant] :
                         iv.startTime < iv.endTime }] : n \in 0..MaxShown }

ScreenInit ==
    \E list \in ShownSessions :
        screen = [sessions |-> [i \in DOMAIN list |->
                                  [id |-> i, startTime |-> list[i].startTime,
                                   endTime |-> list[i].endTime]],
                  rendered |-> NotRendered,
                  conflicts |-> << >>]

\* the row of one session is rendered: its conflicts are looked up
RenderSession(i) ==
    /\ i \in DOMAIN screen.sessions
    /\ screen' = [screen EXCEPT
                     !.rendered = i,
                     !.conflicts = findConflictingSessions(screen.sessions[i],
                                                           screen.sessions)]
    /\ UNCHANGED << suggVars, apiVars, gen, progVars, mobileVars, scoreVars >>

ScreenNext == \E i \in 1..MaxShown : RenderSession(i)

-----------------------------------------------------------------------------
(* Specifications *)

\* the suggestion engine is not running
SuggestionsIdle ==
    /\ sessionType = [id |-> "type-1", priority |-> 1]
    /\ existingSessions = << >>
    /\ availabilityWindows = << >>
    /\ durationMinutes = 60
    /\ lookAheadDays = 0
    /\ now = 0
    /\ suggestions = << >>
    /\ calls = 0
    /\ calledAt = 0
    /\ previous = << >>
    /\ previousAt = 0

\* no request is sent to the sessions API
ApiIdle == ApiInit /\ oneAtATime

\* calculateProgressStats is not called
ProgressIdle == allSessions = << >> /\ stats = NoStats

\* the mobile application is not running
MobileIdle == StoreInit /\ HookInit

\* scoreTimeSlot is not called on its own
ScoreIdle ==
    scored = [startTime |-> 0, duration |-> 60,
              sessionType |-> [id |-> "type-1", priority |-> 1],
              existingSessions |-> << >>, availabilityWindows |-> << >>,
              result |-> NoScore]

\* no screen is shown
ScreenIdle ==
    screen = [sessions |-> << >>, rendered |-> NotRendered, conflicts |-> << >>]

\* nothing but the part under study runs
OthersIdle == ProgressIdle /\ MobileIdle /\ ScoreIdle /\ ScreenIdle

\* the sessions API
Init == ApiInit /\ SuggestionsIdle /\ gen = NotStarted /\ OthersIdle
Next == ApiNext
Spec == Init /\ [][Next]_vars

\* generateSuggestions as a function of its arguments and the clock
SuggestionsStart ==
    /\ SuggestionsInit
    /\ ApiIdle
    /\ gen = NotStarted
    /\ OthersIdle

SuggestionsSpec == SuggestionsStart /\ [][SuggestionsNext]_vars

\* one call of generateSuggestions run to completion; the call is a
\* synchronous computation that nothing suspends
GenInit ==
    /\ SuggestionsInit
    /\ now = At(1, 8, 20)
    /\ sessionType.priority = 5
    /\ Len(existingSessions) \in { 0, 1, Len(BusyDay) }
    /\ ApiIdle
    /\ gen = NotStarted
    /\ OthersIdle

GenSpec == GenInit /\ [][GenNext]_vars /\ WF_vars(GenNext)

\* calculateProgressStats as a function of the session list
ProgressStart ==
    /\ ProgressInit
    /\ SuggestionsIdle
    /\ ApiIdle
    /\ gen = NotStarted
    /\ MobileIdle
    /\ ScoreIdle
    /\ ScreenIdle

ProgressSpec == ProgressStart /\ [][ProgressNext]_vars

\* the sessions store of the mobile application and its callers
StoreStart ==
    /\ StoreInit
    /\ HookInit
    /\ SuggestionsIdle
    /\ ApiIdle
    /\ gen = NotStarted
    /\ ProgressIdle
    /\ ScoreIdle
    /\ ScreenIdle

StoreSpec == StoreStart /\ [][StoreNext]_vars

\* the useSuggestions hook
HookStart ==
    /\ HookInit
    /\ StoreInit
    /\ SuggestionsIdle
    /\ ApiIdle
    /\ gen = NotStarted
    /\ ProgressIdle
    /\ ScoreIdle
    /\ ScreenIdle

HookSpec == HookStart /\ [][HookNext]_vars

\* the scoring of one slot as a function of its arguments
ScoreStart ==
    /\ ScoreInit
    /\ SuggestionsIdle
    /\ ApiIdle
    /\ gen = NotStarted
    /\ ProgressIdle
    /\ MobileIdle
    /\ ScreenIdle

ScoreSpec == ScoreStart /\ [][ScoreNext]_vars

\* a screen that marks the conflicts of the sessions it shows
ScreenStart ==
    /\ ScreenInit
    /\ SuggestionsIdle
    /\ ApiIdle
    /\ gen = NotStarted
    /\ ProgressIdle
    /\ MobileIdle
    /\ ScoreIdle

ScreenSpec == ScreenStart /\ [][ScreenNext]_vars

-----------------------------------------------------------------------------
(* Properties of generateSuggestions *)

\* the half-open intervals [a1, a2) and [b1, b2) have a common point
Intersects(a1, a2, b1, b2) == Max(a1, b1) < Min(a2, b2)

\* every start time generateTimeSlots produces for the days of the latest call
Candidates ==
    UNION { Range(generateTimeSlots(
                addHours(setHours(calledAt, 0, 0), dayOffset * Hours(24)),
                durationMinutes, availabilityWindows)) :
            dayOffset \in 0..(lookAheadDays - 1) }

WellFormedInput ==
    /\ durationMinutes > 0
    /\ \A i \in DOMAIN existingSessions :
          existingSessions[i].endTime > existingSessions[i].startTime

\* C1: no returned suggestion [startTime, startTime + duration) intersects
\* an existing session's [startTime, endTime), and the conflict filter
\* discards a candidate exactly when it intersects one, so a candidate that
\* only touches a session is not discarded by it.
C1_NoConflict ==
    (calls > 0 /\ WellFormedInput) =>
        /\ \A k \in DOMAIN suggestions : \A i \in DOMAIN existingSessions :
              ~Intersects(suggestions[k].startTime,
                          suggestions[k].startTime + durationMinutes,
                          existingSessions[i].startTime,
                          existingSessions[i].endTime)
        /\ \A st \in Candidates :
              conflicts(st, st + durationMinutes, existingSessions)
                <=> \E i \in DOMAIN existingSessions :
                       Intersects(st, st + durationMinutes,
                                  existingSessions[i].startTime,
                                  existingSessions[i].endTime)

\* a returned suggestion starts exactly where an existing session ends and
\* another one ends exactly where an existing session starts
C1_Witness ==
    /\ calls > 0
    /\ \E k \in DOMAIN suggestions : \E i \in DOMAIN existingSessions :
          suggestions[k].startTime = existingSessions[i].endTime
    /\ \E k \in DOMAIN suggestions : \E i \in DOMAIN existingSessions :
          suggestions[k].endTime = existingSessions[i].startTime

\* C2: the returned list has at most 10 entries, every score is at least
\* 30, and the scores are in non-increasing order.
C2_ScoreBound ==
    /\ Len(suggestions) <= 10
    /\ \A k \in DOMAIN suggestions : suggestions[k].score >= 30
    /\ \A k \in 1..(Len(suggestions) - 1) :
          suggestions[k].score >= suggestions[k + 1].score

\* a full list of 10 with different scores, cut from more than 10 candidates
C2_Witness ==
    /\ calls > 0
    /\ Len(suggestions) = 10
    /\ suggestions[1].score > suggestions[10].score
    /\ Cardinality(Candidates) > 10

\* C6 as stated: with no windows and no sessions the result is non-empty
\* for every durationMinutes > 0 and lookAheadDays >= 1.
C6_FallbackAnyDuration ==
    (/\ calls > 0
     /\ availabilityWindows = << >>
     /\ existingSessions = << >>
     /\ durationMinutes > 0
     /\ lookAheadDays >= 1) => suggestions # << >>

\* C6 amended: with no windows and no sessions the result is non-empty for
\* every lookAheadDays >= 1 and every durationMinutes > 0 that fits the
\* 16 hours of the default 06:00-22:00 window.
C6_Fallback ==
    (/\ calls > 0
     /\ availabilityWindows = << >>
     /\ existingSessions = << >>
     /\ durationMinutes > 0
     /\ durationMinutes <= Hours(22) - Hours(6)
     /\ lookAheadDays >= 1) => suggestions # << >>

\* the fallback engaged for a session that fills the default window exactly
C6_Witness ==
    /\ calls > 0
    /\ availabilityWindows = << >>
    /\ existingSessions = << >>
    /\ lookAheadDays >= 1
    /\ durationMinutes = Hours(22) - Hours(6)
    /\ Len(suggestions) = lookAheadDays

\* the distance in minutes from the slot [st, en) to a session: negative
\* when they intersect, 0 when they touch
GapTo(st, en, session) == Max(st - session.endTime, session.startTime - en)

\* C7: for a non-empty existingSessions, a candidate whose smallest gap to
\* an existing session is at least 0 and below 2 hours has spacing factor 0.
C7_SpacingFloor ==
    (calls > 0 /\ existingSessions # << >>) =>
        \A st \in Candidates :
            LET en == st + durationMinutes
                gaps == { GapTo(st, en, existingSessions[i]) :
                             i \in DOMAIN existingSessions }
            IN  (SetMin(gaps) >= 0 /\ SetMin(gaps) < Hours(MIN_SPACING_HOURS))
                   => calculateSpacingScore(st, en, existingSessions) = 0

\* minutes after midnight of an "HH:mm" string
MinutesOf(str) == splitHM(str).hour * 60 + splitHM(str).minute

\* C8: a suggestion starting on a weekday that has availability windows lies
\* entirely inside one of that weekday's windows.
C8_InsideWindow ==
    \A k \in DOMAIN suggestions :
        LET sg == suggestions[k]
            midnight == setHours(sg.startTime, 0, 0)
            ofDay == { i \in DOMAIN availabilityWindows :
                          availabilityWindows[i].dayOfWeek = getDay(sg.startTime) }
        IN  ofDay # {} =>
                \E i \in ofDay :
                    /\ midnight + MinutesOf(availabilityWindows[i].startTime)
                          <= sg.startTime
                    /\ sg.endTime
                          <= midnight + MinutesOf(availabilityWindows[i].endTime)

\* suggestions were returned both for a weekday with windows and for one
\* without
C8_Witness ==
    /\ calls > 0
    /\ \E k \in DOMAIN suggestions : \E i \in DOMAIN availabilityWindows :
          availabilityWindows[i].dayOfWeek = getDay(suggestions[k].startTime)
    /\ \E k \in DOMAIN suggestions : \A i \in DOMAIN availabilityWindows :
          availabilityWindows[i].dayOfWeek # getDay(suggestions[k].startTime)

DaysOfCall ==
    { setHours(calledAt, 0, 0) + dayOffset * DayMinutes :
         dayOffset \in 0..(lookAheadDays - 1) }

\* the windows that apply on the day starting at midnight, as pairs of minutes
\* after midnight: those of the weekday, or 06:00-22:00 when it has none
WindowsOn(midnight) ==
    LET ofDay == { i \in DOMAIN availabilityWindows :
                      availabilityWindows[i].dayOfWeek = getDay(midnight) }
    IN  IF ofDay = {} THEN [i \in { 0 } |-> << Hours(6), Hours(22) >>]
        ELSE [i \in ofDay |-> << MinutesOf(availabilityWindows[i].startTime),
                                 MinutesOf(availabilityWindows[i].endTime) >>]

\* the start times W.start + 30 k with start + duration <= W.end
GridOf(midnight, w) ==
    { midnight + w[1] + 30 * k :
         k \in { n \in 0..47 : w[1] + 30 * n + durationMinutes <= w[2] } }

GridPoints ==
    UNION { UNION { GridOf(d, WindowsOn(d)[i]) : i \in DOMAIN WindowsOn(d) } :
            d \in DaysOfCall }

\* C18: every suggestion lasts durationMinutes and starts on the 30-minute
\* grid of a window of its weekday (the default window when it has none),
\* early enough to end inside the window, on one of the lookAheadDays days
\* from the current day on; and every such grid point is a candidate.
C18_Grid ==
    calls > 0 =>
        LET grid == GridPoints
        IN  /\ \A k \in DOMAIN suggestions :
                  /\ suggestions[k].endTime - suggestions[k].startTime = durationMinutes
                  /\ suggestions[k].startTime \in grid
            /\ Candidates = grid

\* suggestions off the start of a window, on a day with windows and on a
\* later day with the default hours
C18_Witness ==
    /\ calls > 0
    /\ lookAheadDays >= 2
    /\ \E k \in DOMAIN suggestions : \E i \in DOMAIN availabilityWindows :
          /\ availabilityWindows[i].dayOfWeek = getDay(suggestions[k].startTime)
          /\ suggestions[k].startTime
                > setHours(suggestions[k].startTime, 0, 0)
                    + MinutesOf(availabilityWindows[i].startTime)
    /\ \E k \in DOMAIN suggestions :
          /\ suggestions[k].startTime >= setHours(calledAt, 0, 0) + DayMinutes
          /\ getHours(suggestions[k].startTime) >= 6

SpacingFactor(st) ==
    calculateSpacingScore(st, st + durationMinutes, existingSessions)

TotalOf(st) ==
    scoreTimeSlot(st, st + durationMinutes, sessionType, existingSessions,
                  availabilityWindows)

Shown(st) == \E k \in DOMAIN suggestions : suggestions[k].startTime = st

\* C19: a candidate whose spacing factor is 0 is kept like any other: if it
\* intersects no existing session and its total is at least 30 it is
\* returned, unless ten suggestions of at least its score fill the list.
C19_SpacingZeroKept ==
    calls > 0 =>
        \A st \in Candidates :
            (/\ SpacingFactor(st) = 0
             /\ \A i \in DOMAIN existingSessions :
                   ~Intersects(st, st + durationMinutes,
                               existingSessions[i].startTime,
                               existingSessions[i].endTime)
             /\ ScoreAtLeast30(TotalOf(st)))
               => \/ Shown(st)
                  \/ /\ Len(suggestions) = 10
                     /\ suggestions[10].score >= MathRound(TotalOf(st))

\* a priority-5 type, an existing session ending 1 to 2 hours before a
\* returned suggestion that lies in an availability window and has spacing
\* factor 0
C19_Witness ==
    /\ calls > 0
    /\ sessionType.priority = 5
    /\ \E k \in DOMAIN suggestions :
          /\ SpacingFactor(suggestions[k].startTime) = 0
          /\ suggestions[k].score >= 30
          /\ \E i \in DOMAIN existingSessions :
                /\ suggestions[k].startTime - existingSessions[i].endTime >= Hours(1)
                /\ suggestions[k].startTime - existingSessions[i].endTime < Hours(2)
          /\ \E i \in DOMAIN availabilityWindows :
                availabilityWindows[i].dayOfWeek = getDay(suggestions[k].startTime)

\* the number of windows that produce the start time st
SlotCount(st) ==
    LET d == setHours(st, 0, 0)
    IN  Cardinality({ i \in DOMAIN WindowsOn(d) : st \in GridOf(d, WindowsOn(d)[i]) })

\* the suggestions pushed by the latest call, before the sort and the cut
Pushed ==
    dayLoop(0, setHours(calledAt, 0, 0), sessionType, existingSessions,
            availabilityWindows, durationMinutes, lookAheadDays)

\* C20: a start time is generated, scored and kept once per window that
\* produces it: among the suggestions pushed, and among those returned when
\* the cut to ten removes none, a start time that passes the filters occurs
\* as often as windows produce it, each time with the same endTime and score.
C20_OncePerWindow ==
    calls > 0 =>
        LET all == Pushed
        IN  \A st \in GridPoints :
                LET pushed == { k \in DOMAIN all : all[k].startTime = st }
                    shown  == { k \in DOMAIN suggestions : suggestions[k].startTime = st }
                IN  /\ Cardinality(pushed) \in { 0, SlotCount(st) }
                    /\ \A k, l \in pushed : all[k] = all[l]
                    /\ Len(all) <= 10 => Cardinality(shown) = Cardinality(pushed)
                    /\ \A k, l \in shown : suggestions[k] = suggestions[l]

\* two overlapping windows of one weekday: the returned list holds the same
\* suggestion twice
C20_Witness ==
    /\ calls > 0
    /\ \E k, l \in DOMAIN suggestions :
          /\ k # l
          /\ suggestions[k] = suggestions[l]
          /\ SlotCount(suggestions[k].startTime) = 2

\* the statement-by-statement execution returns what generateSuggestions
\* denotes
GenAgrees ==
    gen.pc = "done" =>
        gen.result = generateSuggestions(now, sessionType, existingSessions,
                         availabilityWindows, durationMinutes, lookAheadDays)

\* C10: every call of generateSuggestions reaches its return statement,
\* whatever the sessions, windows, duration and look-ahead are, and with
\* lookAheadDays = 0 the returned list is empty.
C10_Terminates ==
    /\ <>(gen.pc = "done")
    /\ [](gen.pc = "done" =>
             /\ Len(gen.result) <= Len(gen.suggestions)
             /\ lookAheadDays = 0 => gen.result = << >>)

\* a call with sessions, windows and a look-ahead of several days returned
\* a non-empty list
C10_Witness ==
    /\ gen.pc = "done"
    /\ existingSessions # << >>
    /\ availabilityWindows # << >>
    /\ lookAheadDays > 1
    /\ gen.result # << >>
\* the availability factor of the candidate starting at st
AvailabilityFactor(st) ==
    calculateAvailabilityScore(st, addHours(st, durationMinutes),
                               availabilityWindows)

\* the weekday of st has an availability window
HasWindow(st) ==
    \E i \in DOMAIN availabilityWindows :
        availabilityWindows[i].dayOfWeek = getDay(st)

\* the candidate starting at st passes the conflict filter and is scored
IsScored(st) == ~conflicts(st, addHours(st, durationMinutes), existingSessions)

\* C27: every candidate that is scored has availability factor 100 when its
\* weekday has at least one availability window and 50 when it has none;
\* the partial fit on a weekday with windows and the value 0 do not occur.
C27_Availability ==
    calls > 0 =>
        \A st \in Candidates :
            IsScored(st) =>
                AvailabilityFactor(st) = IF HasWindow(st) THEN Pts(100)
                                         ELSE Pts(50)

\* the call scored a slot that ends exactly with its window, and a slot of
\* a weekday without windows
C27_Witness ==
    /\ calls > 0
    /\ \E st \in Candidates :
          /\ IsScored(st)
          /\ \E i \in DOMAIN availabilityWindows :
                /\ availabilityWindows[i].dayOfWeek = getDay(st)
                /\ format(addHours(st, durationMinutes))
                      = availabilityWindows[i].endTime
    /\ \E st \in Candidates : IsScored(st) /\ ~HasWindow(st)

\* the start times that pass the filters, in the order of generation: by
\* day, then by window in the order of the list, then ascending
GenerationOrder ==
    flat([n \in 1..lookAheadDays |->
            LET d == setHours(calledAt, 0, 0) + (n - 1) * DayMinutes
                ws == WindowsOn(d)
                order == ascending(DOMAIN ws)
            IN  flat([m \in 1..Len(order) |->
                        SelectSeq(ascending(GridOf(d, ws[order[m]])),
                                  LAMBDA st : /\ IsScored(st)
                                              /\ ScoreAtLeast30(TotalOf(st)))])])

\* the entries of list whose score is v, in the order of the list
WithScore(list, v) == SelectSeq(list, LAMBDA x : x.score = v)

\* C28: the returned list is the suggestions pushed, ordered by their
\* rounded score; suggestions of equal rounded score keep the order in which
\* they were generated (by day offset, then window, then start time), so of
\* those that tie for the last places the earliest generated are returned.
C28_StableOrder ==
    calls > 0 =>
        LET all == Pushed
            last == suggestions[Len(suggestions)].score
        IN  /\ [k \in DOMAIN all |-> all[k].startTime] = GenerationOrder
            /\ Len(suggestions) = Min(10, Len(all))
            /\ \A k \in DOMAIN all : all[k].score = MathRound(TotalOf(all[k].startTime))
            /\ \A v \in { all[k].score : k \in DOMAIN all } :
                  LET returned == WithScore(suggestions, v)
                      pushed == WithScore(all, v)
                  IN  /\ Len(returned) <= Len(pushed)
                      /\ returned = SubSeq(pushed, 1, Len(returned))
                      /\ (suggestions # << >> /\ v > last)
                            => Len(returned) = Len(pushed)
                      /\ (suggestions # << >> /\ v < last)
                            => Len(returned) = 0

\* more than ten suggestions tie for the best score; ten are returned, and
\* one generated later has the same score
C28_Witness ==
    /\ calls > 0
    /\ Len(suggestions) = 10
    /\ suggestions[1].score = suggestions[10].score
    /\ \E k \in DOMAIN Pushed :
          /\ Pushed[k].score = suggestions[1].score
          /\ Pushed[k].startTime > suggestions[10].startTime
    /\ \A k \in DOMAIN Pushed : Pushed[k].score <= suggestions[1].score


-----------------------------------------------------------------------------
(* Properties of the sessions API *)

\* client c's handler took a step
Stepped(c) == req'[c] # req[c]

\* C3: a POST for an existing session type with endTime > startTime is
\* answered 409, leaving the table unchanged, exactly when its interval
\* intersects a stored session's; otherwise it goes on to create exactly
\* that one session and answers 201.
C3_PostConflict ==
    /\ [](\A startTime \in Times, endTime \in Times :
            endTime > startTime =>
                LET r == postChecked(sessionTable, "type-1", startTime, endTime)
                    intersecting ==
                        \E s \in sessionTable :
                            Intersects(startTime, endTime, s.startTime, s.endTime)
                IN  /\ intersecting <=> (r.pc = "done" /\ r.status = 409)
                    /\ ~intersecting <=> r.pc = "create")
    /\ [][\A c \in Clients :
            /\ (Stepped(c) /\ req'[c].op = "POST" /\ req'[c].status = 409)
                  => sessionTable' = sessionTable
            /\ (req[c].op = "POST" /\ req[c].pc = "create" /\ Stepped(c))
                  => /\ req'[c].pc = "done" /\ req'[c].status = 201
                     /\ \E s \in sessionTable' \ sessionTable :
                           /\ s.startTime = req[c].startTime
                           /\ s.endTime = req[c].endTime
                           /\ s.sessionTypeId = req[c].sessionTypeId
                           /\ sessionTable' = sessionTable \cup { s }
                           /\ \A t \in sessionTable : t.id # s.id]_vars

\* a POST was answered 409 while two stored sessions touch each other
C3_Witness ==
    /\ \E c \in Clients : req[c].op = "POST" /\ req[c].status = 409
    /\ \E s, t \in sessionTable : s.endTime = t.startTime

\* C4: no two distinct stored sessions have intersecting intervals.
C4_NoStoredOverlap ==
    \A s, t \in sessionTable :
        s.id # t.id => ~Intersects(s.startTime, s.endTime, t.startTime, t.endTime)

\* client c's handler received a body whose endTime is not after its startTime
InvalidRangeReceived(c) ==
    /\ req[c].pc \in { "idle", "done" }
    /\ Stepped(c)
    /\ req'[c].op \in { "POST", "PUT" }
    /\ req'[c].startTime # NoTime /\ req'[c].endTime # NoTime
    /\ req'[c].endTime <= req'[c].startTime

StoredRangesValid == \A s \in sessionTable : s.endTime > s.startTime

\* C5 as stated: every stored session has endTime > startTime, and every
\* create or update whose endTime is not after its startTime is answered
\* 400 and changes nothing.
C5_InvalidRangeIs400 ==
    /\ []StoredRangesValid
    /\ [][\A c \in Clients :
            InvalidRangeReceived(c) =>
                /\ req'[c].pc = "done" /\ req'[c].status = 400
                /\ sessionTable' = sessionTable]_vars

\* C5 amended: every stored session has endTime > startTime; a create for
\* an existing session type, or an update carrying both times, whose
\* endTime is not after its startTime is answered 400 and changes nothing;
\* a create naming an unknown session type is answered 404 before its times
\* are examined, and changes nothing.
C5_ValidRange ==
    /\ []StoredRangesValid
    /\ [][\A c \in Clients :
            InvalidRangeReceived(c) =>
                /\ req'[c].pc = "done"
                /\ req'[c].status =
                      IF req'[c].op = "POST"
                            /\ req'[c].sessionTypeId \notin SessionTypeIds
                      THEN 404 ELSE 400
                /\ sessionTable' = sessionTable]_vars

\* a create and an update with endTime <= startTime were both answered 400
\* while the table holds a session
C5_Witness ==
    /\ sessionTable # {}
    /\ \E c \in Clients : /\ req[c].op = "POST" /\ req[c].status = 400
                          /\ req[c].endTime <= req[c].startTime
    /\ \E c \in Clients : /\ req[c].op = "PUT" /\ req[c].status = 400
                          /\ req[c].endTime <= req[c].startTime

\* another stored session's interval intersects [startTime, endTime)
IntersectsOther(id, startTime, endTime) ==
    \E s \in sessionTable :
        s.id # id /\ Intersects(startTime, endTime, s.startTime, s.endTime)

\* C25: a PUT with both times, endTime > startTime, is answered 409 exactly
\* when its interval intersects a stored session other than the updated
\* one, and then changes nothing, not even the completed flag; otherwise,
\* intersecting at most the session's own interval, it goes on to the
\* update, which stores the new times and answers 200.
C25_PutConflict ==
    /\ [](\A id \in 1..MaxId, startTime \in Times, endTime \in Times,
            bodyCompleted \in { Absent, "true" } :
            endTime > startTime =>
                LET r == putChecked(sessionTable, id, bodyCompleted,
                                    startTime, endTime)
                IN  IF IntersectsOther(id, startTime, endTime)
                    THEN r.pc = "done" /\ r.status = 409
                    ELSE r.pc = "update")
    /\ [][\A c \in Clients :
            /\ (Stepped(c) /\ req'[c].op = "PUT" /\ req'[c].status = 409)
                  => req'[c].pc = "done" /\ sessionTable' = sessionTable
            /\ (/\ req[c].op = "PUT" /\ req[c].pc = "update" /\ Stepped(c)
                /\ req[c].startTime # NoTime
                /\ \E s \in sessionTable : s.id = req[c].id)
                  => /\ req'[c].status = 200
                     /\ \E s \in sessionTable' :
                           /\ s.id = req[c].id
                           /\ s.startTime = req[c].startTime
                           /\ s.endTime = req[c].endTime]_vars

\* with two sessions stored, an update of the first to its own interval has
\* passed the conflict query while another update of it was answered 409
C25_Witness ==
    /\ Cardinality(sessionTable) = 2
    /\ \E c \in Clients :
          /\ req[c].op = "PUT" /\ req[c].pc = "update"
          /\ \E s \in sessionTable :
                /\ s.id = req[c].id
                /\ Intersects(req[c].startTime, req[c].endTime,
                              s.startTime, s.endTime)
    /\ \E c \in Clients : req[c].op = "PUT" /\ req[c].status = 409

\* C26: a PUT whose body carries only one of startTime and endTime goes to
\* the update without validation or conflict query, with no time in the
\* update data; the update leaves the times of every stored session as they
\* are and changes at most the completed flag of the session updated.
C26_LoneTimeIgnored ==
    /\ [](\A id \in 1..MaxId, t \in Times, bodyCompleted \in { Absent, "true" } :
            \A r \in { putChecked(sessionTable, id, bodyCompleted, t, NoTime),
                       putChecked(sessionTable, id, bodyCompleted, NoTime, t) } :
                /\ r.pc = "update"
                /\ r.startTime = NoTime /\ r.endTime = NoTime
                /\ r.ignored # Absent)
    /\ [][\A c \in Clients :
            (/\ req[c].op = "PUT" /\ req[c].pc = "update" /\ Stepped(c)
             /\ req[c].ignored # Absent)
               => /\ { s.id : s \in sessionTable' } = { s.id : s \in sessionTable }
                  /\ \A s \in sessionTable :
                        \E t \in sessionTable' :
                            /\ t.id = s.id
                            /\ t.startTime = s.startTime
                            /\ t.endTime = s.endTime
                            /\ t.sessionTypeId = s.sessionTypeId
                            /\ t.completed # s.completed
                                  => /\ s.id = req[c].id
                                     /\ req[c].completed # Absent]_vars

\* a PUT carrying one time and completed was answered 200 and the session
\* is stored as completed
C26_Witness ==
    \E c \in Clients :
        /\ req[c].op = "PUT" /\ req[c].status = 200
        /\ req[c].ignored # Absent
        /\ \E s \in sessionTable : s.completed


-----------------------------------------------------------------------------
(* Properties of calculateProgressStats *)

StatsReturned == stats # NoStats

CompletedCount == Cardinality({ i \in DOMAIN allSessions : allSessions[i].completed })

TypeIds == { allSessions[i].sessionTypeId : i \in DOMAIN allSessions }

CountOfType(id) ==
    Cardinality({ i \in DOMAIN allSessions : allSessions[i].sessionTypeId = id })

FirstIndexOfType(id) ==
    SetMin({ i \in DOMAIN allSessions : allSessions[i].sessionTypeId = id })

\* one entry per distinct sessionTypeId, with the number of its sessions,
\* in non-increasing order of count
ByTypeCounts ==
    LET byType == stats.sessionsByType
    IN  /\ Len(byType) = Cardinality(TypeIds)
        /\ { byType[i].sessionTypeId : i \in DOMAIN byType } = TypeIds
        /\ \A i \in DOMAIN byType :
              byType[i].count = CountOfType(byType[i].sessionTypeId)
        /\ sum([i \in DOMAIN byType |-> byType[i].count]) = stats.totalScheduled
        /\ \A i, j \in DOMAIN byType :
              i < j => byType[i].count >= byType[j].count

\* C12 as claimed: entries of equal count appear in the order in which their
\* type first occurs in the input list.
C12_TiesByFirstOccurrence ==
    StatsReturned =>
        /\ ByTypeCounts
        /\ \A i, j \in DOMAIN stats.sessionsByType :
              (i < j /\ stats.sessionsByType[i].count = stats.sessionsByType[j].count)
                 => FirstIndexOfType(stats.sessionsByType[i].sessionTypeId)
                      < FirstIndexOfType(stats.sessionsByType[j].sessionTypeId)

\* the order of two type ids among entries of equal count
TieBefore(a, b) ==
    IF isArrayIndex(a) /\ isArrayIndex(b) THEN ArrayIndex[a] < ArrayIndex[b]
    ELSE IF isArrayIndex(a) THEN TRUE
    ELSE IF isArrayIndex(b) THEN FALSE
    ELSE FirstIndexOfType(a) < FirstIndexOfType(b)

\* C12: sessionsByType has one entry per distinct sessionTypeId with the
\* number of sessions of that type, in non-increasing order of count; among
\* entries of equal count the ids that are array indices come first, in
\* ascending numeric order, and the other ids follow in the order of their
\* first occurrence in the input list.
C12_ByType ==
    StatsReturned =>
        /\ ByTypeCounts
        /\ \A i, j \in DOMAIN stats.sessionsByType :
              (i < j /\ stats.sessionsByType[i].count = stats.sessionsByType[j].count)
                 => TieBefore(stats.sessionsByType[i].sessionTypeId,
                              stats.sessionsByType[j].sessionTypeId)

\* three types: a tie between "type-1" and "type-2" kept in input order, and
\* the array index "3" placed before them although it occurs last
C12_Witness ==
    /\ StatsReturned
    /\ Len(stats.sessionsByType) = 3
    /\ allSessions[3].sessionTypeId = "3"
    /\ stats.sessionsByType[1].sessionTypeId = "3"
    /\ stats.sessionsByType[2].sessionTypeId = allSessions[1].sessionTypeId

\* the positions of allSessions in ascending order of startTime, equal
\* startTimes in input order
StartOrder ==
    CHOOSE p \in [DOMAIN allSessions -> DOMAIN allSessions] :
        \A i, j \in DOMAIN allSessions :
            i < j =>
                \/ allSessions[p[i]].startTime < allSessions[p[j]].startTime
                \/ /\ allSessions[p[i]].startTime = allSessions[p[j]].startTime
                   /\ p[i] < p[j]

\* minutes from the end of the i-th session in start order to the start of
\* the next one
GapMinutes(i) ==
    allSessions[StartOrder[i + 1]].startTime - allSessions[StartOrder[i]].endTime

\* whole hours in a number of minutes, truncated toward zero
WholeHours(minutes) ==
    IF minutes >= 0 THEN minutes \div 60 ELSE 0 - ((0 - minutes) \div 60)

\* tenths is num / den days rounded to one decimal (a half rounds up)
IsRoundedToTenths(tenths, num, den) ==
    /\ 2 * tenths * den <= 20 * num + den
    /\ 20 * num + den < 2 * (tenths + 1) * den

\* C13 as claimed: averageSpacing is the mean of the gaps between
\* consecutive sessions in start order, in days, rounded to one decimal.
C13_MeanOfGaps ==
    StatsReturned =>
        IF Len(allSessions) < 2 THEN stats.averageSpacing = 0
        ELSE IsRoundedToTenths(stats.averageSpacing,
                 sum([i \in 1..(Len(allSessions) - 1) |-> GapMinutes(i)]),
                 (Len(allSessions) - 1) * 24 * 60)

\* C13: averageSpacing is the mean, over consecutive pairs of the sessions
\* sorted by startTime, of the gap from the earlier session's endTime to the
\* later session's startTime counted in whole hours (truncated toward zero),
\* divided by 24 and rounded to one decimal; it is not clamped, and it is 0
\* for fewer than 2 sessions.
C13_MeanOfWholeHourGaps ==
    StatsReturned =>
        IF Len(allSessions) < 2 THEN stats.averageSpacing = 0
        ELSE IsRoundedToTenths(stats.averageSpacing,
                 sum([i \in 1..(Len(allSessions) - 1) |-> WholeHours(GapMinutes(i))]),
                 (Len(allSessions) - 1) * 24)

\* overlapping sessions given out of start order: a negative average
C13_Witness ==
    /\ StatsReturned
    /\ Len(allSessions) >= 2
    /\ allSessions[1].startTime > allSessions[2].startTime
    /\ \E i \in 1..(Len(allSessions) - 1) :
          GapMinutes(i) < 0 /\ GapMinutes(i) % 60 # 0
    /\ stats.averageSpacing < 0


-----------------------------------------------------------------------------
(* Properties of the mobile sessions store *)

NoneInFlight == \A t \in Tasks : store.tasks[t].pc \in { "idle", "done" }

\* C14: once no store operation is in flight, the in-memory session list
\* contains exactly the sessions the server holds.
C14_StoreMatchesServer ==
    NoneInFlight => Range(store.sessions) = server.sessions

\* the tasks whose sessionsAPI.getAll() has not settled yet
OutstandingFetches ==
    { t \in Tasks : store.tasks[t].op = "sync"
                    /\ store.tasks[t].pc \in { "sent", "responded" } }

\* task t calls syncWithServer in this step
CallsSync(t) ==
    /\ store.tasks[t].pc \in { "idle", "done" }
    /\ store'.tasks[t].op = "sync"
    /\ store'.tasks[t].pc \in { "sent", "joined" }

\* the sync started by task t settles in this step
SyncSettles(t) ==
    /\ store.tasks[t].op = "sync"
    /\ store.tasks[t].pc \in { "responded", "saved" }
    /\ store'.tasks[t].pc = "done"

\* C15: at most one fetch started by syncWithServer is outstanding; a call
\* made while a sync is in flight starts no fetch and waits for the promise
\* in flight; when the sync settles, by success or by failure, syncPromise is
\* null again, and a call made then starts a fetch.
C15_SingleSync ==
    /\ [](Cardinality(OutstandingFetches) <= 1)
    /\ [](\A t \in OutstandingFetches : store.syncPromise = t)
    /\ [][\A t \in Tasks :
            /\ (CallsSync(t) /\ store.syncPromise # NoPromise) =>
                  /\ OutstandingFetches' = OutstandingFetches
                  /\ store'.syncPromise = store.syncPromise
                  /\ store'.tasks[t].awaits = store.syncPromise
            /\ (CallsSync(t) /\ store.syncPromise = NoPromise) =>
                  /\ OutstandingFetches' = { t }
                  /\ store'.syncPromise = t
            /\ SyncSettles(t) =>
                  /\ store'.syncPromise = NoPromise
                  /\ \A u \in Tasks :
                        store.tasks[u].awaits = t =>
                           /\ store'.tasks[u].pc = "done"
                           /\ store'.tasks[u].status = store'.tasks[t].status
         ]_vars

\* after an operation has settled, a call of syncWithServer waits for the
\* sync another task has in flight
C15_Witness ==
    \E t, u \in Tasks :
        /\ store.tasks[t].pc = "joined"
        /\ store.tasks[t].awaits = u
        /\ store.tasks[u].pc = "sent"
        /\ store.started = 3

\* task t runs notifyListeners in this step
NotifyStep(t) == store.tasks[t].pc = "saved" /\ store'.tasks[t].pc = "done"

\* C16 as claimed: the change made by a task is followed by one call of each
\* listener subscribed at the moment of the change, with the list that change
\* produced.
C16_NotifiedOfOwnChange ==
    [][\A t \in Tasks :
          NotifyStep(t) =>
             /\ store'.notified.called = store.tasks[t].subscribed
             /\ store'.notified.list = store.tasks[t].newList
      ]_vars

\* C16: a task that changed the list goes on, after its cache write, to call
\* every listener subscribed at that time exactly once, a throwing listener
\* notwithstanding, with the list as it is at that time; no other step calls
\* a listener, so none is called once it is unsubscribed.
C16_Notified ==
    [][/\ \A t \in Tasks :
            /\ NotifyStep(t) =>
                  /\ store'.notified.called = store.listeners
                  /\ store'.notified.list = store.sessions
                  /\ store'.tasks[t].status = "ok"
            /\ store.tasks[t].pc = "saved" =>
                  store'.tasks[t].pc = "saved" \/ NotifyStep(t)
            /\ (store'.sessions # store.sessions) => 
                  \E u \in Tasks : store'.tasks[u].pc = "saved"
       /\ (\A t \in Tasks : ~ NotifyStep(t)) =>
             store'.notified.called = << >>
      ]_vars

\* both listeners were called with a non-empty list, the throwing one first
C16_Witness ==
    /\ store.notified.called = << "l1", "l2" >>
    /\ store.notified.list # << >>

\* C29: whatever the interleaving of syncWithServer and createSession, and
\* the order in which the responses are processed, the in-memory list holds
\* no two entries with the same session id.
C29_NoDuplicateIds ==
    \A i, j \in DOMAIN store.sessions :
        store.sessions[i].id = store.sessions[j].id => i = j

\* the server call of task t fails in this step
ServerCallFails(t) ==
    /\ store.tasks[t].pc = "sent"
    /\ store'.tasks[t].pc = "responded"
    /\ store'.tasks[t].status = "error"

\* task t, whose server call failed, resumes after its await in this step
ResumesAfterFailure(t) ==
    /\ store.tasks[t].pc = "responded"
    /\ store.tasks[t].status = "error"
    /\ store'.tasks[t] # store.tasks[t]

\* C30: when the server call of createSession, updateSession, deleteSession
\* or syncWithServer fails, the method leaves the in-memory list and the
\* cached copy as they are, calls no listener, and throws: the caller, and
\* every caller that joined a failed sync, sees the error.
C30_FailureChangesNothing ==
    [][\A t \in Tasks :
          /\ ServerCallFails(t) =>
                /\ store'.sessions = store.sessions
                /\ store'.cache = store.cache
                /\ store'.notified.called = << >>
          /\ ResumesAfterFailure(t) =>
                /\ store'.sessions = store.sessions
                /\ store'.cache = store.cache
                /\ store'.notified.called = << >>
                /\ store'.tasks[t].pc = "done"
                /\ store'.tasks[t].status = "error"
                /\ \A u \in Tasks :
                      store.tasks[u].awaits = t =>
                         /\ store'.tasks[u].pc = "done"
                         /\ store'.tasks[u].status = "error"
      ]_vars

\* with a session in the list and in the cache, a sync and a change of that
\* session have both failed
C30_Witness ==
    /\ store.sessions # << >>
    /\ store.cache = store.sessions
    /\ \E t, u \in Tasks :
          /\ store.tasks[t].op = "sync"
          /\ store.tasks[t].pc = "done" /\ store.tasks[t].status = "error"
          /\ store.tasks[u].op \in { "update", "delete" }
          /\ store.tasks[u].pc = "done" /\ store.tasks[u].status = "error"


-----------------------------------------------------------------------------
(* Properties of the useSuggestions hook *)

\* the results of the requests that succeeded, in the order of the type ids
CombinedResults == flat(hook.allResults)

\* the number of occurrences of x in list
Occurrences(x, list) == Cardinality({ i \in DOMAIN list : list[i] = x })

FetchAllDone ==
    /\ hook.pc = "done"
    /\ hook.call = "fetchAllSuggestions"
    /\ Len(hook.sessionTypeIds) > 0

\* C17: after fetchAllSuggestions over a non-empty list of type ids,
\* suggestions holds at most 5 entries in non-increasing order of score, they
\* are entries of the combined results and none left out scores higher than
\* one kept; a failed request contributes nothing, the error state stays
\* null and the suggestions of the other types are shown.
C17_TopFive ==
    FetchAllDone =>
        LET shown == hook.suggestions
        IN  /\ Len(shown) = Min(5, Len(CombinedResults))
            /\ \A i, j \in DOMAIN shown : i < j => shown[i].score >= shown[j].score
            /\ \A x \in Range(shown) :
                  Occurrences(x, shown) <= Occurrences(x, CombinedResults)
            /\ \A x \in Range(CombinedResults) :
                  Occurrences(x, shown) < Occurrences(x, CombinedResults) =>
                     \A y \in Range(shown) : y.score >= x.score
            /\ \A i \in hook.failed : hook.allResults[i] = << >>
            /\ hook.error = NoError
            /\ hook.loading = FALSE

\* one request failed and the others delivered more than five entries
C17_Witness ==
    /\ FetchAllDone
    /\ hook.failed # {}
    /\ Len(CombinedResults) > 5
    /\ Len(hook.suggestions) = 5


-----------------------------------------------------------------------------
(* Properties of the scoring of one slot *)

Scored == scored.result # NoScore

Abs(x) == IF x < 0 THEN 0 - x ELSE x

\* the existing sessions of a type of priority 4 or more that start at most
\* 48 hours before or after the slot
NearbyHigh ==
    { i \in DOMAIN scored.existingSessions :
         /\ scored.existingSessions[i].priority >= 4
         /\ Abs(scored.existingSessions[i].startTime - scored.startTime)
               <= 48 * 60 }

\* C21: for a type of priority below 4 the fatigue factor is 100 whatever
\* the existing sessions are; for priority 4 or more it is 30 when at least
\* 3 existing sessions of a type of priority 4 or more start within 48 hours
\* (bounds included) of the slot, 60 when exactly 2 do and 100 otherwise.
C21_Fatigue ==
    Scored =>
        scored.result.fatigueScore =
            IF scored.sessionType.priority < 4 THEN Pts(100)
            ELSE IF Cardinality(NearbyHigh) >= 3 THEN Pts(30)
            ELSE IF Cardinality(NearbyHigh) = 2 THEN Pts(60)
            ELSE Pts(100)

\* a slot of a high priority type with exactly two high priority sessions
\* nearby, one of them exactly 48 hours away
C21_Witness ==
    /\ Scored
    /\ scored.sessionType.priority >= 4
    /\ Cardinality(NearbyHigh) = 2
    /\ \E i \in NearbyHigh :
          Abs(scored.existingSessions[i].startTime - scored.startTime) = 48 * 60
    /\ scored.result.fatigueScore = Pts(60)

\* C23 as stated: for a fixed slot, fixed sessions and fixed windows the
\* total score never goes down when the priority of the type goes up.
C23_Monotone ==
    Scored =>
        \A q \in 1..5 :
            q > scored.sessionType.priority =>
                scoreOf(scored, q) >= scored.result.total

\* the rise of priority from p to q that costs more in fatigue than it
\* gains in priority: 0.15 * 20 = 3 points gained per level, 0.1 * 40 = 4
\* points lost with two high priority sessions nearby, 0.1 * 70 = 7 with
\* three or more
FatigueOutweighs(p, q) ==
    /\ p < 4
    /\ q >= 4
    /\ \/ Cardinality(NearbyHigh) = 2 /\ q - p = 1
       \/ Cardinality(NearbyHigh) >= 3 /\ q - p <= 2

\* C23: for a fixed slot, fixed sessions and fixed windows the priority
\* factor never goes down when the priority goes up, and the total score for
\* priority q > p is at least the one for p, except where p < 4 <= q and the
\* fatigue factor of q loses more than the priority gains: there it is lower.
C23_MonotoneButFatigue ==
    Scored =>
        LET p == scored.sessionType.priority
        IN  \A q \in 1..5 :
                q > p =>
                    /\ calculatePriorityScore(q) >= scored.result.priorityScore
                    /\ IF FatigueOutweighs(p, q)
                       THEN scoreOf(scored, q) < scored.result.total
                       ELSE scoreOf(scored, q) >= scored.result.total

\* a slot scored for priority 3 with three high priority sessions nearby:
\* priority 5 scores lower
C23_Witness ==
    /\ Scored
    /\ scored.sessionType.priority = 3
    /\ Cardinality(NearbyHigh) >= 3
    /\ scoreOf(scored, 5) < scored.result.total


\* the slot has been pushed with its reason
Reasoned == Scored /\ scored.result.reason # NoReason

\* the sessions of the type asked for, and those that ended by the start of
\* the slot
SameType ==
    { i \in DOMAIN scored.existingSessions :
         scored.existingSessions[i].sessionTypeId = scored.sessionType.id }

EarlierSameType ==
    { i \in SameType : scored.existingSessions[i].endTime <= scored.startTime }

\* minutes from the end of the most recent earlier session of the type to
\* the start of the slot
LastGap ==
    scored.startTime
       - SetMax({ scored.existingSessions[i].endTime : i \in EarlierSameType })

\* the spacing clauses that report the gap: in days to one decimal, of the
\* exact gap or of its whole hours, from 24 hours on; in hours, cut or
\* rounded, below
GapClauses ==
    LET name == sessionTypeName(scored.existingSessions[CHOOSE i \in SameType : TRUE])
    IN  IF LastGap >= Hours(24)
        THEN { << "Good spacing (" \o tenthsToString(tenths)
                     \o " days since last " \o name \o ")" >> :
                  tenths \in { (LastGap * 20 + 1440) \div 2880,
                              roundDays(LastGap \div 60) } }
        ELSE { << "Good spacing (" \o ToString(hours)
                     \o " hours since last " \o name \o ")" >> :
                  hours \in { LastGap \div 60, (LastGap + 30) \div 60 } }

SpacingClauses ==
    IF SameType = {} THEN { << "First session of this type" >> }
    ELSE IF EarlierSameType = {} THEN { << >> }
    ELSE GapClauses

FocusClause ==
    IF getHours(scored.startTime) \in 6..11
    THEN << "Uses your morning focus window" >>
    ELSE IF getHours(scored.startTime) \in 18..21
    THEN << "Uses your evening focus window" >>
    ELSE << >>

PriorityClause ==
    IF scored.sessionType.priority >= 4 THEN << "High priority session" >>
    ELSE << >>

\* C22: the reason of a suggestion is the applicable clauses joined by ". "
\* in the order spacing, focus window, priority: the spacing clause reports
\* the gap to the most recent earlier session of the type, in days from 24
\* hours on and in hours below, and is "First session of this type" exactly
\* when no session of the type exists; the focus clause is morning for the
\* hours 6 to 11 and evening for 18 to 21; "High priority session" is added
\* exactly for priority 4 or more; the default text stands for no clause.
C22_Reason ==
    Reasoned =>
        \E spacing \in SpacingClauses :
            LET clauses == spacing \o FocusClause \o PriorityClause
            IN  scored.result.reason =
                    IF clauses = << >> THEN "Good time slot available"
                    ELSE join(clauses, ". ")


-----------------------------------------------------------------------------
(* Properties of the conflict marks *)

Rendered == screen.rendered # NotRendered

\* the half-open intervals of two sessions have a common point
SessionsIntersect(a, b) ==
    Intersects(a.startTime, a.endTime, b.startTime, b.endTime)

\* C24: sessionsOverlap(a, b) is true exactly when the half-open intervals
\* of a and b intersect, identical intervals and intervals that share a
\* start or an end included; it is symmetric; and findConflictingSessions
\* returns every other session that overlaps the given one.
C24_Overlap ==
    Rendered =>
        LET session == screen.sessions[screen.rendered]
        IN  /\ \A i \in DOMAIN screen.sessions :
                  LET other == screen.sessions[i]
                  IN  /\ sessionsOverlap(session, other)
                            = SessionsIntersect(session, other)
                      /\ sessionsOverlap(session, other)
                            = sessionsOverlap(other, session)
            /\ screen.conflicts =
                  SelectSeq(screen.sessions,
                            LAMBDA other : /\ other.id # session.id
                                           /\ SessionsIntersect(session, other))

====
